---- MODULE Spec2Model ----
(***************************************************************************)
(* A model of the onboarding automation scripts (Google Apps Script):      *)
(*   - fetchWithRetries        (retrying HTTP client)                      *)
(*   - fetchAllPages           (cursor pagination against Notion)          *)
(*   - linkDatabases           (match source/target pages by e-mail)       *)
(*   - syncGoogleSheetToNotion (change-gated page update)                  *)
(*   - notifyScrumMasterOfCompletedMandates (configuration check, the      *)
(*     notified-teams list across invocations)                             *)
(*   - the write helpers       (how each decides its outcome)              *)
(*   - getPropertyData / parseRowFromPage (projection onto sheet rows)     *)
(*   - runScript               (the LAST_RUN_TIME watermark)               *)
(*   - syncDataToSheet         (the sheet cleared and filled from Notion)  *)
(*   - createUserGroup / addUsersToUsergroup (one Slack user group)        *)
(* Each component has its own specification over the shared variables;     *)
(* a component that is not running keeps its variables at their idle       *)
(* values.                                                                 *)
(***************************************************************************)
EXTENDS Integers, Sequences, FiniteSets

VARIABLES
    \* ---- fetchWithRetries ----
    rScript,      \* what the remote answers on the 1st, 2nd, ... fetch
    rMaxRetries,  \* the maxRetries argument
    rPc,          \* "loop" | "returned" | "threw"
    rAttempt,     \* the loop variable `attempt`
    rFetched,     \* the responses UrlFetchApp.fetch has returned, in order
    rSlept,       \* the Utilities.sleep calls, in seconds, in order
    rResult       \* the response returned to the caller, or NoResponse

retryVars == <<rScript, rMaxRetries, rPc, rAttempt, rFetched, rSlept, rResult>>

VARIABLES
    \* ---- fetchAllPages ----
    pVariant,     \* which fetchAllPages runs: "api" (api.js), "logger" (logger.js)
    pRemote,      \* the remote database: its pages and what goes wrong on each
    pFetch        \* the locals of fetchAllPages (see NewFetch)

pageVars == <<pVariant, pRemote, pFetch>>

VARIABLES
    \* ---- linkDatabases ----
    lSrc,         \* remote database 1: per page id, its e-mail and relation
    lTgt,         \* remote database 2: per page id, its e-mail
    lRun,         \* "first" | "second": which of two successive runs this is
    lPc,          \* "fetch1" | "fetch2" | "link" | "done"
    lFetch,       \* the locals of the fetchAllPages call in progress
    lComplete,    \* no query of this run has come back without results
    lPages1,      \* pagesDatabase1
    lPages2,      \* pagesDatabase2
    lIdx,         \* index into pagesDatabase1 of the forEach callback to run next
    lWrites,      \* the relation PATCH requests of this run, in order
    lFirst        \* what the first run did, kept for the second one

linkVars == <<lSrc, lTgt, lRun, lPc, lFetch, lComplete, lPages1, lPages2, lIdx,
              lWrites, lFirst>>

VARIABLES
    \* ---- syncGoogleSheetToNotion ----
    mRows,        \* the data rows of the Mandates sheet
    mNotion,      \* the Notion pages: per page id, its two properties
    mPc,          \* "loop" | "done" | "threw"
    mIdx,         \* index of the row the forEach callback receives next
    mLog,         \* what the callback did with each row it has received
    mRun          \* which execution of the job this is

mandateVars == <<mRows, mNotion, mPc, mIdx, mLog, mRun>>

VARIABLES
    \* ---- configuration check at the start of a job ----
    cProps,       \* the script properties that are set
    cJob,         \* "notify" (notifyScrumMasterOfCompletedMandates) | "link"
    cInit,        \* which initializeConfig the project resolves to
    cPc,          \* "start" | "check" | "running" | "querying" | "aborted" | "threw"
    cRequests     \* the UrlFetchApp.fetch calls of the job so far, in order

configVars == <<cProps, cJob, cInit, cPc, cRequests>>

VARIABLES
    \* ---- notifyScrumMasterOfCompletedMandates: the notified-teams list ----
    nStore,       \* script property notifiedCompletedTeamIds (parsed)
    nRun,         \* per invocation: its position and its locals
    nStarted,     \* number of invocations started so far
    nSent,        \* per team, the number of direct messages Slack accepted
    nSkipped,     \* the teams some invocation skipped as already notified
    nResent,      \* a message was accepted for a team then in the stored list
    nOverlapped,  \* some invocation started while another was running
    nSaveFailed,  \* some setProperty of the list raised
    nEverStored   \* the team ids some invocation has stored

notifyVars == <<nStore, nRun, nStarted, nSent, nSkipped, nResent, nOverlapped,
                nSaveFailed, nEverStored>>

VARIABLES
    \* ---- the write helpers ----
    wLog          \* per write: the helper, the remote's response, the outcome

writeVars == <<wLog>>

VARIABLES
    \* ---- projection of a page onto a sheet row ----
    jVariant,     \* "notion" (getPropertyData) | "team" (extractPropertyValue)
    jRecord,      \* the page: per column, the property it holds
    jTitle,       \* the remote: what the related page answers a title fetch
    jRows         \* the projections made so far, in order

projectVars == <<jVariant, jRecord, jTitle, jRows>>

VARIABLES
    \* ---- runScript (addGroupsToSlack): the LAST_RUN_TIME watermark ----
    gRows,        \* the sheet: per data row, the day of its Last Update
    gLastRun,     \* script property LAST_RUN_TIME (0: not set)
    gClock,       \* the current time, in half days
    gPc,          \* "idle" | "loop"
    gLoaded,      \* the constant lastRunTime of the execution in progress
    gGroups,      \* groupsMap of the execution in progress, as row numbers
    gIdx,         \* index into groupsMap of the group the loop takes next
    gFailed,      \* the groups of this execution that were not updated
    gRuns         \* what each finished execution did

groupVars == <<gRows, gLastRun, gClock, gPc, gLoaded, gGroups, gIdx, gFailed,
               gRuns>>

VARIABLES
    \* ---- syncDataToSheet / syncNotionPeopleDirectoryToGoogleSheet ----
    sDb,          \* the Notion database: its pages, in query order
    sSheet,       \* the Mandates sheet: its rows with content, top down
    sPc,          \* "idle" | "loop" | "write" | "done"
    sCursor,      \* startCursor: the number of pages the queries have returned
    sAllRows,     \* allRows
    sFetched      \* the ids of the pages the queries of this run returned

sheetVars == <<sDb, sSheet, sPc, sCursor, sAllRows, sFetched>>

VARIABLES
    \* ---- createUserGroup, addUsersToUsergroup: one Slack user group ----
    uExists,      \* a user group of the name exists in the workspace
    uMembers,     \* the members of the group
    uCalls        \* what each call found, sent and returned

usergroupVars == <<uExists, uMembers, uCalls>>

vars == <<retryVars, pageVars, linkVars, mandateVars, configVars,
         notifyVars,
         writeVars,
         projectVars,
         groupVars,
         sheetVars,
         usergroupVars>>

\* the variables each component leaves alone
notRetry == <<pageVars, linkVars, mandateVars, configVars,
    notifyVars,
    writeVars,
    projectVars,
    groupVars,
    sheetVars,
    usergroupVars>>
notPages == <<retryVars, linkVars, mandateVars, configVars,
    notifyVars,
    writeVars,
    projectVars,
    groupVars,
    sheetVars,
    usergroupVars>>
notLink == <<retryVars, pageVars, mandateVars, configVars,
    notifyVars,
    writeVars,
    projectVars,
    groupVars,
    sheetVars,
    usergroupVars>>
notMandate == <<retryVars, pageVars, linkVars, configVars,
    notifyVars,
    writeVars,
    projectVars,
    groupVars,
    sheetVars,
    usergroupVars>>
notConfig == <<retryVars, pageVars, linkVars, mandateVars,
    notifyVars,
    writeVars,
    projectVars,
    groupVars,
    sheetVars,
    usergroupVars>>
notNotify == <<retryVars, pageVars, linkVars, mandateVars, configVars,
    writeVars,
    projectVars,
    groupVars,
    sheetVars,
    usergroupVars>>
notWrite == <<retryVars, pageVars, linkVars, mandateVars, configVars, notifyVars,
    projectVars,
    groupVars,
    sheetVars,
    usergroupVars>>
notProject == <<retryVars, pageVars, linkVars, mandateVars, configVars, notifyVars, writeVars,
    groupVars,
    sheetVars,
    usergroupVars>>
notGroup == <<retryVars, pageVars, linkVars, mandateVars, configVars, notifyVars, writeVars, projectVars,
    sheetVars,
    usergroupVars>>
notSheet == <<retryVars, pageVars, linkVars, mandateVars, configVars, notifyVars, writeVars, projectVars, groupVars,
    usergroupVars>>
notUsergroup == <<retryVars, pageVars, linkVars, mandateVars, configVars, notifyVars, writeVars, projectVars, groupVars, sheetVars>>

\* `null` as a cursor value; the tokens of the remote are 2, 3, ...
NullCursor == 0

\* the value of rResult while nothing has been returned
NoResponse == [n |-> 0, body |-> [ok |-> FALSE, error |-> "no_response"]]

\* the locals of fetchAllPages before the loop, with the calls it has made
NewFetch ==
    [pc       |-> "loop",   \* "loop" | "done" (returned) | "threw"
     pages    |-> <<>>,
     hasMore  |-> TRUE,
     cursor   |-> NullCursor,
     requests |-> <<>>,     \* the start_cursor of each query sent (NullCursor: none)
     replies  |-> <<>>,     \* the next_cursor of each well-formed answer
     errors   |-> <<>>]     \* the error log entries written

\* the values the variables of fetchWithRetries keep while it is not running
IdleRetry ==
    /\ rScript = <<>>
    /\ rMaxRetries = 0
    /\ rPc = "idle"
    /\ rAttempt = 0
    /\ rFetched = <<>>
    /\ rSlept = <<>>
    /\ rResult = NoResponse

\* the values the variables of fetchAllPages keep while it is not running
IdlePages ==
    /\ pVariant = "none"
    /\ pRemote = <<>>
    /\ pFetch = [NewFetch EXCEPT !.pc = "idle"]

\* what the summary of the first run holds before that run has ended
NoSummary == [writes |-> 0, allOk |-> TRUE, complete |-> TRUE]

\* the values the variables of linkDatabases keep while it is not running
IdleLink ==
    /\ lSrc = <<>>
    /\ lTgt = <<>>
    /\ lRun = "none"
    /\ lPc = "idle"
    /\ lFetch = [NewFetch EXCEPT !.pc = "idle"]
    /\ lComplete = TRUE
    /\ lPages1 = <<>>
    /\ lPages2 = <<>>
    /\ lIdx = 0
    /\ lWrites = <<>>
    /\ lFirst = NoSummary

\* the values the variables of syncGoogleSheetToNotion keep while it is not
\* running
IdleMandate ==
    /\ mRows = <<>>
    /\ mNotion = <<>>
    /\ mPc = "idle"
    /\ mIdx = 0
    /\ mLog = <<>>
    /\ mRun = 0

\* the values the variables of the configuration check keep while no job is
\* starting
IdleConfig ==
    /\ cProps = {}
    /\ cJob = "none"
    /\ cInit = "none"
    /\ cPc = "idle"
    /\ cRequests = <<>>

\* the values the variables of the notification job keep while it is not
\* modelled
IdleNotify ==
    /\ nStore = <<>>
    /\ nRun = <<>>
    /\ nStarted = 0
    /\ nSent = <<>>
    /\ nSkipped = {}
    /\ nResent = FALSE
    /\ nOverlapped = FALSE
    /\ nSaveFailed = FALSE
    /\ nEverStored = {}

\* the value the variable of the write helpers keeps while they are not
\* modelled
IdleWrite == wLog = <<>>

\* the values the variables of the projection keep while it is not modelled
IdleProject ==
    /\ jVariant = "none"
    /\ jRecord = <<>>
    /\ jTitle = "none"
    /\ jRows = <<>>

\* the values the variables of runScript keep while it is not modelled
IdleGroup ==
    /\ gRows = <<>>
    /\ gLastRun = 0
    /\ gClock = 0
    /\ gPc = "none"
    /\ gLoaded = 0
    /\ gGroups = <<>>
    /\ gIdx = 0
    /\ gFailed = {}
    /\ gRuns = <<>>

\* the values the variables of the sheet synchronisation keep while it is
\* not modelled
IdleSheet ==
    /\ sDb = <<>>
    /\ sSheet = <<>>
    /\ sPc = "none"
    /\ sCursor = 0
    /\ sAllRows = <<>>
    /\ sFetched = <<>>

\* the values the variables of the user group keep while it is not modelled
IdleUsergroup ==
    /\ uExists = FALSE
    /\ uMembers = {}
    /\ uCalls = <<>>

(***************************************************************************)
(* fetchAllPages                                                           *)
(***************************************************************************)

\* bound on the number of pages a remote database is split into
MaxPages == 3

\* bound on the number of records of one page
MaxPageRecords == 2

\* what can go wrong with one query: nothing; a 200 body without `results`;
\* a non-200 status (its error body has no `results` either); an exception
\* raised by UrlFetchApp.fetch itself (muteHttpExceptions only silences
\* status codes)
Faults == {"none", "no_results", "http_error", "fetch_throws"}

\* the records of page i of a database whose pages hold sizes[i] records,
\* in the order the remote returns them
PageRecords(sizes, i) == [k \in 1..sizes[i] |-> <<i, k>>]

\* a remote database of n pages: page i answers with its records, unless
\* faults[i] strikes
RemoteDatabase(n, sizes, faults) ==
    [i \in 1..n |-> [items |-> PageRecords(sizes, i), fault |-> faults[i]]]

\* the page a query addresses: the first one without start_cursor, else the
\* one the cursor names (the cursor of page i+1 is the token i+1)
AddressedPage(startCursor) == IF startCursor = NullCursor THEN 1 ELSE startCursor

\* the remote's answer to a query carrying startCursor (NullCursor: none sent);
\* has_more is true on every page but the last and next_cursor is then the
\* token of the following page
QueryResponse(remote, startCursor) ==
    LET i == AddressedPage(startCursor)
        fault == remote[i].fault
    IN  [threw       |-> fault = "fetch_throws",
         status      |-> IF fault = "http_error" THEN 429 ELSE 200,
         results     |-> IF fault = "none"
                         THEN [defined |-> TRUE, items |-> remote[i].items]
                         ELSE [defined |-> FALSE, items |-> <<>>],
         has_more    |-> i < Len(remote),
         next_cursor |-> IF i < Len(remote) THEN i + 1 ELSE NullCursor]

\* payload = {page_size, ...(cursor && {start_cursor: cursor})}
SentCursor_Mut(f) == NullCursor
SentCursor(f) == f.cursor

\* the branch of the loop body a response takes
\* api.js: try { status !== 200 -> break; !results -> break } catch -> break
\* logger.js: no try, no status test; !results -> break
ResponseBranch(variant, resp) ==
    IF resp.threw THEN (IF variant = "api" THEN "caught" ELSE "uncaught")
    ELSE IF variant = "api" /\ resp.status # 200 THEN "api_error"
    ELSE IF ~resp.results.defined THEN "no_results"
    ELSE "append"

\* the locals after a response without results: log and break, then
\* `return pages`
AfterNoResults_Mut(f, sent, tag) ==
    [f EXCEPT !.requests = Append(@, sent)]
AfterNoResults(f, sent, tag) ==
    [f EXCEPT !.requests = Append(@, sent),
              !.errors = Append(@, tag),
              !.pc = "done"]

\* the locals after a well-formed page: append, take over cursor and flag
AfterPage_Mut(f, sent, resp) ==
    [f EXCEPT !.requests = Append(@, sent),
              !.replies = Append(@, resp.next_cursor),
              !.pages = resp.results.items \o @,
              !.cursor = resp.next_cursor,
              !.hasMore = resp.has_more,
              !.pc = IF resp.has_more THEN "loop" ELSE "done"]
AfterPage(f, sent, resp) ==
    [f EXCEPT !.requests = Append(@, sent),
              !.replies = Append(@, resp.next_cursor),
              !.pages = @ \o resp.results.items,
              !.cursor = resp.next_cursor,
              !.hasMore = resp.has_more,
              !.pc = IF resp.has_more THEN "loop" ELSE "done"]

\* one iteration of `while (hasMore)` of fetchAllPages
LoopIteration(variant, remote, f) ==
    LET sent == SentCursor(f)
        resp == QueryResponse(remote, sent)
        branch == ResponseBranch(variant, resp)
    IN  CASE branch = "append" -> AfterPage(f, sent, resp)
          [] branch = "uncaught" ->
                [f EXCEPT !.requests = Append(@, sent), !.pc = "threw"]
          [] OTHER -> AfterNoResults(f, sent, branch)

InitPages ==
    /\ IdleUsergroup
    /\ IdleSheet
    /\ IdleGroup
    /\ IdleProject
    /\ IdleWrite
    /\ IdleNotify
    /\ IdleConfig
    /\ IdleRetry
    /\ IdleLink
    /\ IdleMandate
    /\ pVariant \in {"api", "logger"}
    /\ \E n \in 1..MaxPages :
          \E sizes \in [1..n -> 0..MaxPageRecords], faults \in [1..n -> Faults] :
             pRemote = RemoteDatabase(n, sizes, faults)
    /\ pFetch = NewFetch

\* the branch the next iteration will take
NextBranch == ResponseBranch(pVariant, QueryResponse(pRemote, SentCursor(pFetch)))

\* the loop condition holds and the remote has the page the query addresses
CanIterate ==
    /\ pFetch.pc = "loop"
    /\ pFetch.hasMore
    /\ AddressedPage(SentCursor(pFetch)) \in 1..Len(pRemote)

\* an iteration that receives a well-formed page
FetchPage ==
    /\ CanIterate
    /\ NextBranch = "append"
    /\ pFetch' = LoopIteration(pVariant, pRemote, pFetch)
    /\ UNCHANGED <<pVariant, pRemote>>
    /\ UNCHANGED notPages

\* an iteration that receives a body without `results`
FetchNoResults ==
    /\ CanIterate
    /\ NextBranch = "no_results"
    /\ pFetch' = LoopIteration(pVariant, pRemote, pFetch)
    /\ UNCHANGED <<pVariant, pRemote>>
    /\ UNCHANGED notPages

\* an iteration of api.js that receives a non-200 status
FetchApiError ==
    /\ CanIterate
    /\ NextBranch = "api_error"
    /\ pFetch' = LoopIteration(pVariant, pRemote, pFetch)
    /\ UNCHANGED <<pVariant, pRemote>>
    /\ UNCHANGED notPages

\* an iteration in which UrlFetchApp.fetch raises
FetchThrows ==
    /\ CanIterate
    /\ NextBranch \in {"caught", "uncaught"}
    /\ pFetch' = LoopIteration(pVariant, pRemote, pFetch)
    /\ UNCHANGED <<pVariant, pRemote>>
    /\ UNCHANGED notPages

NextPages ==
    \/ FetchPage
    \/ FetchNoResults
    \/ FetchApiError
    \/ FetchThrows

SpecPages == InitPages /\ [][NextPages]_vars

\* every record of pages 1..n of the remote, page after page
RECURSIVE RecordsUpTo(_, _)
RecordsUpTo(remote, n) ==
    IF n = 0 THEN <<>>
    ELSE RecordsUpTo(remote, n - 1) \o remote[n].items

\* every query of the remote is answered with a well-formed page
FaultFree(remote) == \A i \in 1..Len(remote) : remote[i].fault = "none"

\* C5: against a remote that serves its pages without fault (three pages
\* with has_more = true, true, false in particular) fetchAllPages issues one
\* query per page and returns the records of page 1, then page 2, then
\* page 3, each once and in the order received.
C5_AllPagesInOrder ==
    FaultFree(pRemote) =>
        /\ pFetch.pc # "threw"
        /\ Len(pFetch.requests) <= Len(pRemote)
        /\ pFetch.pages = RecordsUpTo(pRemote, Len(pFetch.replies))
        /\ pFetch.pc = "done" =>
              /\ Len(pFetch.requests) = Len(pRemote)
              /\ pFetch.pages = RecordsUpTo(pRemote, Len(pRemote))

\* C5 witness: three non-empty pages, all fetched
C5_Witness ==
    /\ FaultFree(pRemote)
    /\ Len(pRemote) = 3
    /\ \A i \in 1..3 : pRemote[i].items # <<>>
    /\ pFetch.pc = "done"
    /\ Len(pFetch.requests) = 3

\* the first page is well-formed with has_more = true and the second answer
\* has status 200 and no results field
SecondPageMalformed(remote) ==
    /\ Len(remote) >= 2
    /\ remote[1].fault = "none"
    /\ remote[2].fault = "no_results"

\* C6: when the first page is well-formed with has_more = true and the
\* second response has no results field, the fetcher returns exactly the
\* records of the first page, logs one fetch error, sends no third query
\* and does not throw.
C6_PartialOnMalformedPage ==
    SecondPageMalformed(pRemote) =>
        /\ pFetch.pc # "threw"
        /\ Len(pFetch.requests) <= 2
        /\ Len(pFetch.requests) = 2 =>
              /\ pFetch.pc = "done"
              /\ pFetch.pages = pRemote[1].items
              /\ pFetch.errors = <<"no_results">>

\* C6 witness: the second answer was malformed and the fetcher has returned
\* the first page's records
C6_Witness ==
    /\ SecondPageMalformed(pRemote)
    /\ Len(pRemote) = 3
    /\ pRemote[1].items # <<>>
    /\ pFetch.pc = "done"
    /\ Len(pFetch.requests) = 2

\* C7: each query after the first carries the next_cursor of the answer
\* just before it, no cursor value is sent twice, and the number of queries
\* never exceeds the number of pages of the remote.
C7_CursorSingleUse ==
    LET req == pFetch.requests
        rep == pFetch.replies
    IN  /\ \A k \in 2..Len(req) : k - 1 <= Len(rep) /\ req[k] = rep[k - 1]
        /\ \A i, j \in 1..Len(req) : i # j => req[i] # req[j]
        /\ Len(req) <= Len(pRemote)

\* C7 witness: a loop that has sent three queries and ended
C7_Witness ==
    /\ Len(pFetch.requests) = 3
    /\ pFetch.pc = "done"
    /\ pFetch.requests = <<NullCursor, 2, 3>>

(***************************************************************************)
(* linkDatabases (logger.js, with the fetchAllPages and                    *)
(* updatePageRelationWithMultiple of the same file)                        *)
(***************************************************************************)

\* number of pages of database 1 (source) and of database 2 (target)
NSrc == 2
NTgt == 2

\* e-mail values, as sequences of characters; <<>> is an absent or empty one
Emails == {<<>>, <<"a">>, <<"A">>, <<"A", " ">>}

\* String.prototype.toLowerCase, character by character
LowerChar(c) == IF c = "A" THEN "a" ELSE c
ToLowerCase(str) == [i \in DOMAIN str |-> LowerChar(str[i])]

\* the relations a source page may hold before the first run: none, or the
\* first page of database 2
InitialRelations == {<<>>, <<1>>}

\* the page objects the query endpoint returns for the two databases
SourcePages ==
    [i \in DOMAIN lSrc |-> [id |-> i, email |-> lSrc[i].email,
                            relation |-> lSrc[i].relation]]
TargetPages ==
    [i \in DOMAIN lTgt |-> [id |-> i, email |-> lTgt[i].email, relation |-> <<>>]]

\* a database as the query endpoint serves it, one record per page, with
\* `fault` striking the page the next query addresses
DbRemote(db, startCursor, fault) ==
    [i \in DOMAIN db |->
        [items |-> <<db[i]>>,
         fault |-> IF i = AddressedPage(startCursor) THEN fault ELSE "none"]]

\* (page.properties["Email (Org)"]?.email || "").toLowerCase()
JoinKey_Mut(page) == page.email
JoinKey(page) == ToLowerCase(page.email)

\* the ids of the pages whose key is `key`, in page order
IdsWithKey_Mut(pages, key) ==
    LET sel == SelectSeq(pages, LAMBDA pg : JoinKey(pg) = key)
    IN  <<sel[1].id>>
IdsWithKey(pages, key) ==
    LET sel == SelectSeq(pages, LAMBDA pg : JoinKey(pg) = key)
    IN  [i \in 1..Len(sel) |-> sel[i].id]

\* emailToPageIdMap = pagesDatabase2.reduce(...): key -> ids, empty keys left out
EmailToPageIdMap(pages2) ==
    [key \in {JoinKey(pages2[i]) : i \in DOMAIN pages2} \ {<<>>} |->
        IdsWithKey(pages2, key)]

\* !page.properties["People Directory (Sync)"]?.relation?.length
RelationEmpty_Mut(page, matched) ==
    \E i \in DOMAIN matched : \A j \in DOMAIN page.relation : page.relation[j] # matched[i]
RelationEmpty_Always(page, matched) == TRUE
RelationEmpty(page, matched) == Len(page.relation) = 0

\* what the forEach callback does with a page of database 1:
\* "link" (PATCH the relation), "noop" (already linked) or "nomatch"
Decision(page, map) ==
    LET email == JoinKey(page) IN
    IF email # <<>> /\ email \in DOMAIN map
    THEN (IF RelationEmpty(page, map[email]) THEN "link" ELSE "noop")
    ELSE "nomatch"

\* relationPayload = relatedPageIds.map(pageId => ({id: pageId}))
RelationPayload(page, map) == map[JoinKey(page)]

InitLink ==
    /\ IdleUsergroup
    /\ IdleSheet
    /\ IdleGroup
    /\ IdleProject
    /\ IdleWrite
    /\ IdleNotify
    /\ IdleConfig
    /\ IdleRetry
    /\ IdlePages
    /\ IdleMandate
    /\ lSrc \in [1..NSrc -> [email : Emails, relation : InitialRelations]]
    /\ lTgt \in [1..NTgt -> [email : Emails]]
    /\ lRun = "first"
    /\ lPc = "fetch1"
    /\ lFetch = NewFetch
    /\ lComplete = TRUE
    /\ lPages1 = <<>>
    /\ lPages2 = <<>>
    /\ lIdx = 0
    /\ lWrites = <<>>
    /\ lFirst = NoSummary

\* the database the fetchAllPages call in progress reads
FetchedDb == IF lPc = "fetch1" THEN SourcePages ELSE TargetPages

\* one query of fetchAllPages(databaseId1) or fetchAllPages(databaseId2)
\* answered with `fault`; when the call returns, linkDatabases goes on:
\* after database 1 to the fetch of database 2, after database 2 to the
\* forEach over pagesDatabase1, or to its early return when either list is
\* empty
LinkQuery(fault) ==
    /\ lPc \in {"fetch1", "fetch2"}
    /\ lFetch.pc = "loop"
    /\ lFetch.hasMore
    /\ AddressedPage(SentCursor(lFetch)) \in 1..Len(FetchedDb)
    /\ LET f == LoopIteration("logger",
                              DbRemote(FetchedDb, SentCursor(lFetch), fault),
                              lFetch)
       IN  /\ lComplete' = (lComplete /\ fault = "none")
           /\ IF f.pc = "loop"
              THEN /\ lFetch' = f
                   /\ UNCHANGED <<lPc, lPages1, lPages2, lIdx>>
              ELSE IF lPc = "fetch1"
              THEN /\ lPages1' = f.pages
                   /\ lFetch' = NewFetch
                   /\ lPc' = "fetch2"
                   /\ UNCHANGED <<lPages2, lIdx>>
              ELSE /\ lPages2' = f.pages
                   /\ lFetch' = [NewFetch EXCEPT !.pc = "idle"]
                   /\ IF Len(lPages1) = 0 \/ Len(f.pages) = 0
                      THEN lPc' = "done" /\ lIdx' = 0
                      ELSE lPc' = "link" /\ lIdx' = 1
                   /\ UNCHANGED lPages1
    /\ UNCHANGED <<lSrc, lTgt, lRun, lWrites, lFirst>>
    /\ UNCHANGED notLink

\* a query answered with a well-formed page
LinkQueryPage == LinkQuery("none")

\* a query answered without results
LinkQueryNoResults == LinkQuery("no_results")

\* the page the next forEach callback receives
CurrentPage == lPages1[lIdx]

\* the end of a forEach callback, the run fetching anew after the last page
Advance_Mut ==
    /\ lIdx' = lIdx + 1
    /\ lPc' = IF lIdx = Len(lPages1) THEN "fetch1" ELSE "link"

\* the end of a forEach callback: the next page, or the end of the run
Advance ==
    /\ lIdx' = lIdx + 1
    /\ lPc' = IF lIdx = Len(lPages1) THEN "done" ELSE "link"

\* the callback PATCHes the relation and the remote answers 200: the page
\* now holds the payload as its relation
LinkWriteOk ==
    /\ lPc = "link"
    /\ Decision(CurrentPage, EmailToPageIdMap(lPages2)) = "link"
    /\ LET payload == RelationPayload(CurrentPage, EmailToPageIdMap(lPages2)) IN
         /\ lWrites' = Append(lWrites, [page |-> CurrentPage.id,
                                        payload |-> payload, ok |-> TRUE])
         /\ lSrc' = [lSrc EXCEPT ![CurrentPage.id].relation = payload]
    /\ Advance
    /\ UNCHANGED <<lTgt, lRun, lFetch, lComplete, lPages1, lPages2, lFirst>>
    /\ UNCHANGED notLink

\* the callback PATCHes the relation and the remote answers with another
\* status: updatePageRelationWithMultiple returns false, the failure is
\* logged and forEach goes on
LinkWriteRejected ==
    /\ lPc = "link"
    /\ Decision(CurrentPage, EmailToPageIdMap(lPages2)) = "link"
    /\ LET payload == RelationPayload(CurrentPage, EmailToPageIdMap(lPages2)) IN
         lWrites' = Append(lWrites, [page |-> CurrentPage.id,
                                     payload |-> payload, ok |-> FALSE])
    /\ Advance
    /\ UNCHANGED <<lSrc, lTgt, lRun, lFetch, lComplete, lPages1, lPages2, lFirst>>
    /\ UNCHANGED notLink

\* the callback writes nothing: no e-mail, no match, or already linked
LinkSkip ==
    /\ lPc = "link"
    /\ Decision(CurrentPage, EmailToPageIdMap(lPages2)) # "link"
    /\ Advance
    /\ UNCHANGED <<lSrc, lTgt, lRun, lFetch, lComplete, lPages1, lPages2,
                   lWrites, lFirst>>
    /\ UNCHANGED notLink

\* what a run that has ended did
RunSummary ==
    [writes   |-> Len(lWrites),
     allOk    |-> \A i \in DOMAIN lWrites : lWrites[i].ok,
     complete |-> lComplete]

\* linkDatabases is run a second time, the databases left as they are
RunAgain ==
    /\ lPc = "done"
    /\ lRun = "first"
    /\ lRun' = "second"
    /\ lFirst' = RunSummary
    /\ lPc' = "fetch1"
    /\ lFetch' = NewFetch
    /\ lComplete' = TRUE
    /\ lPages1' = <<>>
    /\ lPages2' = <<>>
    /\ lIdx' = 0
    /\ lWrites' = <<>>
    /\ UNCHANGED <<lSrc, lTgt>>
    /\ UNCHANGED notLink

NextLink ==
    \/ LinkQueryPage
    \/ LinkQueryNoResults
    \/ LinkWriteOk
    \/ LinkWriteRejected
    \/ LinkSkip
    \/ RunAgain

SpecLink == InitLink /\ [][NextLink]_vars

\* the pages of database 1 the forEach of this run has dealt with
Processed ==
    IF lPc \in {"link", "done"} THEN 1..(lIdx - 1) ELSE {}

\* this run has sent a relation PATCH for the page
Written(page) == \E w \in DOMAIN lWrites : lWrites[w].page = page.id

\* the number of relation PATCHes this run has sent for the page
WriteCount(page) == Cardinality({w \in DOMAIN lWrites : lWrites[w].page = page.id})

\* the page's key is in the index built from the fetched pages of database 2
KeyPresent(page) ==
    JoinKey(page) # <<>> /\ JoinKey(page) \in DOMAIN EmailToPageIdMap(lPages2)

\* the targets matched to the page
Matched(page) == EmailToPageIdMap(lPages2)[JoinKey(page)]

\* the page's relation holds the target id
Holds(page, id) == \E j \in DOMAIN page.relation : page.relation[j] = id

HoldsAll(page) == \A i \in DOMAIN Matched(page) : Holds(page, Matched(page)[i])
HoldsSome(page) == \E i \in DOMAIN Matched(page) : Holds(page, Matched(page)[i])

C4_LinkUnlessFullyLinked ==
    \A i \in Processed :
        KeyPresent(lPages1[i]) =>
            /\ (HoldsSome(lPages1[i]) /\ ~HoldsAll(lPages1[i])) => Written(lPages1[i])
            /\ ~Written(lPages1[i]) => HoldsAll(lPages1[i])

\* C4 amended: a page gets a relation write exactly when its key is in the
\* index and its relation is empty; a page that holds any link is left
\* alone, also when it lacks some of the matched targets.
C4_LinkOnlyWhenUnlinked ==
    \A i \in Processed :
        Written(lPages1[i]) <=>
            (KeyPresent(lPages1[i]) /\ Len(lPages1[i].relation) = 0)

\* C4 witness: a page holding one of two matched targets was processed and
\* not written
C4_Witness ==
    \E i \in Processed :
        /\ KeyPresent(lPages1[i])
        /\ HoldsSome(lPages1[i])
        /\ ~HoldsAll(lPages1[i])
        /\ ~Written(lPages1[i])

\* C13: no step of a run removes a link from a source page: every id a
\* page's relation holds before the step is held after it, whatever the
\* targets matched to its key are by then.
C13_LinksNeverRemoved ==
    [][\A i \in DOMAIN lSrc :
          \A j \in DOMAIN lSrc[i].relation :
              \E k \in DOMAIN lSrc'[i].relation :
                  lSrc'[i].relation[k] = lSrc[i].relation[j]]_vars

\* C13 witness: a run has ended in which one page was written and another,
\* linked to a target that no longer matches its key, was left as it was
C13_Witness ==
    /\ lPc = "done"
    /\ \E w \in DOMAIN lWrites : lWrites[w].ok
    /\ \E i \in Processed :
          /\ KeyPresent(lPages1[i])
          /\ Len(lPages1[i].relation) > 0
          /\ ~HoldsSome(lPages1[i])
          /\ lSrc[lPages1[i].id].relation = lPages1[i].relation

\* the fetched target pages whose key is the key of the written page
SameKeyTargets(write) ==
    LET src == CHOOSE i \in DOMAIN lPages1 : lPages1[i].id = write.page
    IN  {j \in DOMAIN lPages2 : JoinKey(lPages2[j]) = JoinKey(lPages1[src])}

RECURSIVE Trim(_)
Trim(str) ==
    IF str = <<>> THEN str
    ELSE IF str[1] = " " THEN Trim(Tail(str))
    ELSE IF str[Len(str)] = " " THEN Trim(SubSeq(str, 1, Len(str) - 1))
    ELSE str

\* C15: a source page and a fetched target page whose e-mails are equal
\* after lower-casing and trimming (and not empty) are matched: the target
\* is among the targets the source page's key leads to.
C15_TrimmedLowerCasedKeysMatch ==
    \A i \in Processed : \A j \in DOMAIN lPages2 :
        (/\ Trim(ToLowerCase(lPages1[i].email)) # <<>>
         /\ Trim(ToLowerCase(lPages1[i].email)) = Trim(ToLowerCase(lPages2[j].email)))
        => /\ KeyPresent(lPages1[i])
           /\ \E k \in DOMAIN Matched(lPages1[i]) : Matched(lPages1[i])[k] = lPages2[j].id

\* the place of a phase in a run: the two fetches, the forEach with its
\* map lookups and writes, the end
PhaseRank(pc) ==
    IF pc = "fetch1" THEN 1 ELSE IF pc = "fetch2" THEN 2 ELSE IF pc = "link" THEN 3 ELSE 4

\* "Linking process completed." and the finish message have been posted:
\* the run came to its end past the test for empty lists
FinishReported == lPc = "done" /\ Len(lPages1) # 0 /\ Len(lPages2) # 0

\* C26: within one run the phases only go forward (fetch of database 1, of
\* database 2, the forEach that looks up and writes, the end): a query is
\* sent only while fetching and before any write of the run, a write only
\* in the forEach after both fetches have returned, and once the run has
\* ended (the finish report posted) neither a query nor a write follows.
C26_PhasesInOrder ==
    [][lRun' = lRun =>
         /\ PhaseRank(lPc') >= PhaseRank(lPc)
         /\ lFetch' # lFetch =>
               (lPc \in {"fetch1", "fetch2"} /\ lWrites = <<>> /\ lWrites' = <<>>)
         /\ lWrites' # lWrites =>
               (lPc = "link" /\ lFetch.pc = "idle" /\ lFetch' = lFetch
                /\ Len(lPages1) # 0 /\ Len(lPages2) # 0)
         /\ lPc = "done" => (lWrites' = lWrites /\ lFetch' = lFetch)]_vars

\* C26 witness: a run that fetched both databases, wrote twice and posted
\* its finish report
C26_Witness ==
    /\ FinishReported
    /\ Len(lPages1) = 2
    /\ Len(lWrites) = 2

(***************************************************************************)
(* syncGoogleSheetToNotion (mandate.js)                                    *)
(***************************************************************************)

\* number of data rows of the sheet
NRows == 2

\* number of executions of the job
MaxSyncRuns == 2

\* numbers are kept in units of 0.00001: 314159 is 3.14159
\* one tenth, in those units
Tenth == 10000

\* what getValues gives for an empty `Hours (decimal)` cell (the empty
\* string), kept apart from every number
EmptyCell == -1

\* `Hours (decimal)` cells: empty, 0, 3.1, 3.14159
SheetHours == {EmptyCell, 0, 310000, 314159}

\* the `Hours (decimal)` cells that `if (hoursCurrent)` and `!hoursCurrent`
\* take for absent: the empty string and the number 0
FalsyHours(x) == x \in {EmptyCell, 0}

\* `Hours (Current)` numbers held by Notion: 3.1, 3.2
NotionHours == {310000, 320000}

\* `Last Update` cells: 0 is the empty cell, 1 an instant
SheetInstants == {0, 1}

\* date strings: the same instant is written "....000Z" by toISOString and
\* may be held as "....000+00:00" by the remote
DateForms == {"Z", "+00:00"}

\* Number.prototype.toFixed(1) followed by parseFloat: the nearest tenth
\* (none of the modelled values lies halfway)
RoundToTenth_Mut(x) == x
RoundToTenth(x) == ((x + (Tenth \div 2)) \div Tenth) * Tenth

\* new Date(lastUpdate).toISOString()
ToISOString(instant) == [instant |-> instant, form |-> "Z"]

\* extractNotionPageId(notionUrl): the page id, 0 when the URL has none
ExtractNotionPageId(row) == row.page

\* propertiesToUpdate with the number read compared to the cell as it is
PropertiesToUpdate_Mut(row, props) ==
    (IF ~FalsyHours(row.hours) /\ props.hours # row.hours
     THEN {[field |-> "hours", number |-> RoundToTenth(row.hours),
            start |-> ToISOString(0)]}
     ELSE {})
    \cup
    (IF row.lastUpdate # 0 /\ props.date # ToISOString(row.lastUpdate)
     THEN {[field |-> "date", number |-> 0,
            start |-> ToISOString(row.lastUpdate)]}
     ELSE {})

\* propertiesToUpdate, as the set of fields with their values
\* (field "hours": `Hours (Current)`, field "date": `Hours (Last Update)`)
PropertiesToUpdate(row, props) ==
    (IF ~FalsyHours(row.hours) /\ props.hours # RoundToTenth(row.hours)
     THEN {[field |-> "hours", number |-> RoundToTenth(row.hours),
            start |-> ToISOString(0)]}
     ELSE {})
    \cup
    (IF row.lastUpdate # 0 /\ props.date # ToISOString(row.lastUpdate)
     THEN {[field |-> "date", number |-> 0,
            start |-> ToISOString(row.lastUpdate)]}
     ELSE {})

\* the page after a PATCH with the given fields was accepted
Patched(props, patch) ==
    [hours |-> IF \E f \in patch : f.field = "hours"
               THEN (CHOOSE f \in patch : f.field = "hours").number
               ELSE props.hours,
     date  |-> IF \E f \in patch : f.field = "date"
               THEN (CHOOSE f \in patch : f.field = "date").start
               ELSE props.date]

InitMandate ==
    /\ IdleUsergroup
    /\ IdleSheet
    /\ IdleGroup
    /\ IdleProject
    /\ IdleWrite
    /\ IdleNotify
    /\ IdleConfig
    /\ IdleRetry
    /\ IdlePages
    /\ IdleLink
    /\ mRows \in [1..NRows -> [hours : SheetHours, lastUpdate : SheetInstants,
                               valid : BOOLEAN]]
    /\ mNotion \in [1..NRows -> [hours : NotionHours,
                                 date : [instant : {1}, form : DateForms]]]
    /\ mPc = "loop"
    /\ mIdx = 1
    /\ mLog = <<>>
    /\ mRun = 1

\* the row the next callback receives; row i carries the URL of page i, or
\* a URL without page id
CurrentRow ==
    [hours |-> mRows[mIdx].hours, lastUpdate |-> mRows[mIdx].lastUpdate,
     page |-> IF mRows[mIdx].valid THEN mIdx ELSE 0]

\* the callback returns before any request: both cells empty, or no page id
RowIsSkipped(row) ==
    \/ (FalsyHours(row.hours) /\ row.lastUpdate = 0)
    \/ ExtractNotionPageId(row) = 0

\* the end of a callback: the next row, or the end of the job
NextRow ==
    /\ mIdx' = mIdx + 1
    /\ mPc' = IF mIdx = Len(mRows) THEN "done" ELSE "loop"

\* the value of `read` in an entry of a callback that read no page
NoProps == [hours |-> 0, date |-> ToISOString(0)]

\* what the callback did: whether it sent a GET and what it read, the
\* fields of the PATCH it sent ({}: none), the remote's answer to the PATCH
\* and how the row ended
Entry(row, get, read, patch, answer, outcome) ==
    [run |-> mRun, row |-> mIdx, page |-> row.page, get |-> get, read |-> read,
     patch |-> patch, answer |-> answer, outcome |-> outcome]

\* the callback returns early
SyncRowSkipped ==
    /\ mPc = "loop"
    /\ RowIsSkipped(CurrentRow)
    /\ mLog' = Append(mLog, Entry(CurrentRow, FALSE, NoProps, {}, "none", "RowSkipped"))
    /\ NextRow
    /\ UNCHANGED <<mRows, mNotion, mRun>>
    /\ UNCHANGED notMandate

\* getNotionPageProperties is answered with a non-2xx status:
\* UrlFetchApp.fetch (muteHttpExceptions unset) raises, forEach is left
SyncRowGetThrows ==
    /\ mPc = "loop"
    /\ ~RowIsSkipped(CurrentRow)
    /\ mLog' = Append(mLog, Entry(CurrentRow, TRUE, NoProps, {}, "none", "GetThrew"))
    /\ mPc' = "threw"
    /\ UNCHANGED <<mRows, mNotion, mIdx, mRun>>
    /\ UNCHANGED notMandate

\* the page is read and nothing differs: no PATCH
SyncRowNoChange ==
    /\ mPc = "loop"
    /\ ~RowIsSkipped(CurrentRow)
    /\ PropertiesToUpdate(CurrentRow, mNotion[CurrentRow.page]) = {}
    /\ mLog' = Append(mLog, Entry(CurrentRow, TRUE, mNotion[CurrentRow.page], {}, "none", "Skipped"))
    /\ NextRow
    /\ UNCHANGED <<mRows, mNotion, mRun>>
    /\ UNCHANGED notMandate

\* the page is read, something differs, the PATCH is accepted
SyncRowUpdated ==
    /\ mPc = "loop"
    /\ ~RowIsSkipped(CurrentRow)
    /\ LET patch == PropertiesToUpdate(CurrentRow, mNotion[CurrentRow.page]) IN
         /\ patch # {}
         /\ mNotion' = [mNotion EXCEPT ![CurrentRow.page] = Patched(@, patch)]
         /\ mLog' = Append(mLog, Entry(CurrentRow, TRUE, mNotion[CurrentRow.page],
                                    patch, "accepted", "Updated"))
    /\ NextRow
    /\ UNCHANGED <<mRows, mRun>>
    /\ UNCHANGED notMandate

\* the page is read, something differs, the PATCH is answered 2xx with a
\* body whose object is "error": updateNotionPageProperties returns false
\* and the failure is posted to Slack
SyncRowFailed ==
    /\ mPc = "loop"
    /\ ~RowIsSkipped(CurrentRow)
    /\ LET patch == PropertiesToUpdate(CurrentRow, mNotion[CurrentRow.page]) IN
         /\ patch # {}
         /\ mLog' = Append(mLog, Entry(CurrentRow, TRUE, mNotion[CurrentRow.page],
                                    patch, "error_body", "Failed"))
    /\ NextRow
    /\ UNCHANGED <<mRows, mNotion, mRun>>
    /\ UNCHANGED notMandate

\* the page is read, something differs, the PATCH is rejected with a
\* non-2xx status: UrlFetchApp.fetch (muteHttpExceptions unset) raises
\* inside updateNotionPageProperties, nothing catches it, forEach is left
SyncRowPatchThrows ==
    /\ mPc = "loop"
    /\ ~RowIsSkipped(CurrentRow)
    /\ LET patch == PropertiesToUpdate(CurrentRow, mNotion[CurrentRow.page]) IN
         /\ patch # {}
         /\ mLog' = Append(mLog, Entry(CurrentRow, TRUE, mNotion[CurrentRow.page],
                                    patch, "error_status", "PatchThrew"))
    /\ mPc' = "threw"
    /\ UNCHANGED <<mRows, mNotion, mIdx, mRun>>
    /\ UNCHANGED notMandate

\* the time-driven trigger starts the job again, whether the execution
\* before it came to its end or was left by an exception
SyncRunAgain ==
    /\ mPc \in {"done", "threw"}
    /\ mRun < MaxSyncRuns
    /\ mRun' = mRun + 1
    /\ mPc' = "loop"
    /\ mIdx' = 1
    /\ UNCHANGED <<mRows, mNotion, mLog>>
    /\ UNCHANGED notMandate

NextMandate ==
    \/ SyncRowSkipped
    \/ SyncRowGetThrows
    \/ SyncRowNoChange
    \/ SyncRowUpdated
    \/ SyncRowFailed
    \/ SyncRowPatchThrows
    \/ SyncRunAgain

SpecMandate == InitMandate /\ [][NextMandate]_vars

\* the tenth nearest to x, stated without reference to toFixed
NearestTenth(x) ==
    CHOOSE t \in {k * Tenth : k \in 0..100} : 2 * (IF x >= t THEN x - t ELSE t - x) < Tenth

\* C8: for a row whose hours rounded to one decimal and whose ISO-formatted
\* last update both equal the values read from the page, the job sends no
\* PATCH for the page and the row ends as Skipped (3.14159 against 3.1
\* included).
C8_NoWriteWhenEqual ==
    \A k \in DOMAIN mLog :
        LET e == mLog[k]
            row == mRows[e.row]
        IN  (/\ e.page # 0
             /\ row.hours # 0
             /\ row.lastUpdate # 0
             /\ e.read.hours = NearestTenth(row.hours)
             /\ e.read.date = [instant |-> row.lastUpdate, form |-> "Z"])
            => (e.patch = {} /\ e.outcome = "Skipped")

\* C8 witness: sheet hours 3.14159 against remote 3.1, dates equal, skipped
C8_Witness ==
    \E k \in DOMAIN mLog :
        /\ mRows[mLog[k].row].hours = 314159
        /\ mRows[mLog[k].row].lastUpdate # 0
        /\ mLog[k].read.hours = 310000
        /\ mLog[k].outcome = "Skipped"

\* C9: when the remote rejects the write for a row, the job records the
\* failure for that row and goes on with the remaining rows: a rejected
\* write never ends the job.
C9_RejectedWriteIsolated ==
    \A k \in DOMAIN mLog :
        mLog[k].answer \in {"error_body", "error_status"} =>
            /\ mLog[k].outcome = "Failed"
            /\ (mPc = "threw" => k # Len(mLog))

\* C22: the PATCH sent for a row holds exactly the fields whose proposed
\* value differs from the value read from the page: `Hours (Current)` when
\* the cell holds a number whose nearest tenth is not the number read,
\* `Hours (Last Update)` when the cell holds a date whose ISO string is not
\* the string read; no field that is equal is sent, none that differs is
\* left out.
C22_PatchIsExactlyTheDifference ==
    \A k \in DOMAIN mLog :
        LET e == mLog[k]
            row == mRows[e.row]
        IN  e.patch # {} =>
              /\ (\E f \in e.patch : f.field = "hours")
                    <=> (row.hours # EmptyCell /\ NearestTenth(row.hours) # e.read.hours)
              /\ (\E f \in e.patch : f.field = "date")
                    <=> (row.lastUpdate # 0
                         /\ [instant |-> row.lastUpdate, form |-> "Z"] # e.read.date)

\* C30: when the first execution sent a PATCH for a row and it was
\* accepted (the page then holds the written values as written), the second
\* execution over the same sheet sends no PATCH for that row.
C30_SecondRunWritesNothing ==
    \A k1 \in DOMAIN mLog : \A k2 \in DOMAIN mLog :
        (/\ mLog[k1].run = 1
         /\ mLog[k1].outcome = "Updated"
         /\ mLog[k2].run = 2
         /\ mLog[k2].row = mLog[k1].row)
        => mLog[k2].patch = {}

\* C30 witness: a row written with both fields by the first execution is
\* read again by the second one and ends as Skipped
C30_Witness ==
    \E k1 \in DOMAIN mLog : \E k2 \in DOMAIN mLog :
        /\ mLog[k1].run = 1
        /\ mLog[k1].outcome = "Updated"
        /\ Cardinality(mLog[k1].patch) = 2
        /\ mRows[mLog[k1].row].hours = 314159
        /\ mLog[k2].run = 2
        /\ mLog[k2].row = mLog[k1].row
        /\ mLog[k2].get
        /\ mLog[k2].outcome = "Skipped"

(***************************************************************************)
(* The start of a job: logToSlack, the configuration check and the first   *)
(* Notion query (scrum.js, logger.js, config.js)                           *)
(***************************************************************************)

\* the script properties the two jobs and logToSlack read
PropertyNames ==
    {"NOTION_API_KEY", "SLACK_BOT_TOKEN", "NOTION_TEAM_DB_ID", "LOGGING_CHANNEL_ID",
     "NOTION_PEOPLE_DB_ID", "NOTION_INTERNAL_PEOPLE_DB_ID"}

\* the properties a job cannot work without
RequiredProperties(job) ==
    IF job = "notify"
    THEN {"NOTION_API_KEY", "SLACK_BOT_TOKEN", "NOTION_TEAM_DB_ID"}
    ELSE {"NOTION_API_KEY", "NOTION_PEOPLE_DB_ID", "NOTION_INTERNAL_PEOPLE_DB_ID"}

\* logToSlack(message): posts only when channel id and bot token are set
LogToSlack(props, requests, message) ==
    IF "LOGGING_CHANNEL_ID" \in props /\ "SLACK_BOT_TOKEN" \in props
    THEN Append(requests, [to |-> "slack", what |-> message])
    ELSE requests

\* notifyScrumMasterOfCompletedMandates: the test of line 54
NotifyConfigMissing(props) ==
    ~("NOTION_API_KEY" \in props /\ "SLACK_BOT_TOKEN" \in props
      /\ "NOTION_TEAM_DB_ID" \in props)

\* initializeConfig() returns null: config.js tests the key and both ids;
\* logger.js holds both ids as literals and tests only those
InitializeConfigIsNull(variant, props) ==
    IF variant = "config.js"
    THEN ~("NOTION_API_KEY" \in props /\ "NOTION_PEOPLE_DB_ID" \in props
           /\ "NOTION_INTERNAL_PEOPLE_DB_ID" \in props)
    ELSE FALSE

InitConfig ==
    /\ IdleUsergroup
    /\ IdleSheet
    /\ IdleGroup
    /\ IdleProject
    /\ IdleWrite
    /\ IdleNotify
    /\ IdleRetry
    /\ IdlePages
    /\ IdleLink
    /\ IdleMandate
    /\ cProps \in SUBSET PropertyNames
    /\ \/ cJob = "notify" /\ cInit = "none"
       \/ cJob = "link" /\ cInit \in {"config.js", "logger.js"}
    /\ cPc = "start"
    /\ cRequests = <<>>

\* either job: the properties are read and the start message is logged
JobStart ==
    /\ cPc = "start"
    /\ cRequests' = LogToSlack(cProps, cRequests, "starting")
    /\ cPc' = "check"
    /\ UNCHANGED <<cProps, cJob, cInit>>
    /\ UNCHANGED notConfig

\* notifyScrumMasterOfCompletedMandates, a property is missing: the message
\* is written to the console, then `if (loggingChannelId && slackbottoken)`
\* evaluates an identifier that is declared nowhere: ReferenceError
NotifyConfigError ==
    /\ cPc = "check"
    /\ cJob = "notify"
    /\ NotifyConfigMissing(cProps)
    /\ cPc' = "threw"
    /\ UNCHANGED <<cProps, cJob, cInit, cRequests>>
    /\ UNCHANGED notConfig

\* notifyScrumMasterOfCompletedMandates, nothing is missing: the check
\* message is logged and the job goes on to its query loop
NotifyConfigOk ==
    /\ cPc = "check"
    /\ cJob = "notify"
    /\ ~NotifyConfigMissing(cProps)
    /\ cRequests' = LogToSlack(cProps, cRequests, "checking")
    /\ cPc' = "running"
    /\ UNCHANGED <<cProps, cJob, cInit>>
    /\ UNCHANGED notConfig

\* linkDatabases, initializeConfig() returned null: the abort is logged
LinkConfigError ==
    /\ cPc = "check"
    /\ cJob = "link"
    /\ InitializeConfigIsNull(cInit, cProps)
    /\ cRequests' = LogToSlack(cProps, cRequests, "config_error")
    /\ cPc' = "aborted"
    /\ UNCHANGED <<cProps, cJob, cInit>>
    /\ UNCHANGED notConfig

\* linkDatabases, initializeConfig() returned a configuration
LinkConfigOk ==
    /\ cPc = "check"
    /\ cJob = "link"
    /\ ~InitializeConfigIsNull(cInit, cProps)
    /\ cRequests' = LogToSlack(cProps, cRequests, "linking")
    /\ cPc' = "running"
    /\ UNCHANGED <<cProps, cJob, cInit>>
    /\ UNCHANGED notConfig

\* either job: the first query of the Notion database
FirstQuery ==
    /\ cPc = "running"
    /\ cRequests' = Append(cRequests, [to |-> "notion", what |-> "query"])
    /\ cPc' = "querying"
    /\ UNCHANGED <<cProps, cJob, cInit>>
    /\ UNCHANGED notConfig

NextConfig ==
    \/ JobStart
    \/ NotifyConfigError
    \/ NotifyConfigOk
    \/ LinkConfigError
    \/ LinkConfigOk
    \/ FirstQuery

SpecConfig == InitConfig /\ [][NextConfig]_vars

\* a required token or database id of the job is not set
RequiredMissing == RequiredProperties(cJob) \ cProps # {}

\* the Slack side-channel can be used at all
SlackConfigured == "LOGGING_CHANNEL_ID" \in cProps /\ "SLACK_BOT_TOKEN" \in cProps

\* C10: when a required token or database id is missing, the job, once it
\* has passed its configuration check, has aborted; it has sent no request
\* other than the report of the configuration error, it has queried no
\* record, and (where the Slack side-channel is usable) it has posted that
\* report.
C10_AbortsBeforeAnyRequest ==
    (RequiredMissing /\ cPc \notin {"start", "check"}) =>
        /\ cPc = "aborted"
        /\ \A i \in DOMAIN cRequests :
              cRequests[i] = [to |-> "slack", what |-> "config_error"]
        /\ SlackConfigured =>
              \E i \in DOMAIN cRequests :
                 cRequests[i] = [to |-> "slack", what |-> "config_error"]

(***************************************************************************)
(* notifyScrumMasterOfCompletedMandates (scrum.js): the notified list      *)
(***************************************************************************)

\* number of completed teams in the Team Directory (ids 1..NTeams, returned
\* by the status filter in this order, on one page)
NTeams == 2

\* number of invocations that can be in progress at once, and of
\* invocations in all
NInvocations == 2
MaxStarts == 3

\* the ids held by a list
Ids(list) == {list[i] : i \in DOMAIN list}

\* an invocation that is not running
IdleRun == [pc |-> "idle", list |-> <<>>, idx |-> 0, new |-> FALSE]

\* notifiedTeamIds.includes(teamId)
AlreadyNotified_Mut(list, team) == FALSE
AlreadyNotified(list, team) == team \in Ids(list)

\* the value setProperty stores: JSON.stringify(notifiedTeamIds), the list
\* of the invocation itself, whatever the property holds by then
SavedList_Mut(stored, list) ==
    stored \o SelectSeq(list, LAMBDA t : t \notin Ids(stored))
SavedList(stored, list) == list

\* notifiedTeamIds after the loop body for a team: the id is pushed in the
\* `if (success)` branch only
ListAfterTeam_Mut(list, team, success) == Append(list, team)
ListAfterTeam(list, team, success) == IF success THEN Append(list, team) ELSE list

InitNotify ==
    /\ IdleUsergroup
    /\ IdleSheet
    /\ IdleGroup
    /\ IdleProject
    /\ IdleWrite
    /\ IdleRetry
    /\ IdlePages
    /\ IdleLink
    /\ IdleMandate
    /\ IdleConfig
    /\ nStore \in {<<>>, <<1>>}
    /\ nRun = [r \in 1..NInvocations |-> IdleRun]
    /\ nStarted = 0
    /\ nSent = [t \in 1..NTeams |-> 0]
    /\ nSkipped = {}
    /\ nResent = FALSE
    /\ nOverlapped = FALSE
    /\ nSaveFailed = FALSE
    /\ nEverStored = {}

\* the end of the loop body for one team: the next team, or the end of the
\* results
NextTeam(r, list, new) ==
    nRun' = [nRun EXCEPT ![r] =
                [pc |-> IF nRun[r].idx = NTeams THEN "save" ELSE "loop",
                 list |-> list, idx |-> nRun[r].idx + 1, new |-> new]]

\* the invocation starts: the configuration is complete, the stored list is
\* read and parsed
NotifyStart ==
    \E r \in 1..NInvocations :
        /\ nRun[r].pc = "idle"
        /\ nStarted < MaxStarts
        /\ nStarted' = nStarted + 1
        /\ nRun' = [nRun EXCEPT ![r] =
                       [pc |-> "fetch", list |-> nStore, idx |-> 1, new |-> FALSE]]
        /\ nOverlapped' = (nOverlapped \/ \E q \in 1..NInvocations : nRun[q].pc # "idle")
        /\ UNCHANGED <<nStore, nSent, nSkipped, nResent, nSaveFailed, nEverStored>>
        /\ UNCHANGED notNotify

\* the query of the completed teams is answered with the teams
NotifyFetch ==
    \E r \in 1..NInvocations :
        /\ nRun[r].pc = "fetch"
        /\ nRun' = [nRun EXCEPT ![r].pc = "loop"]
        /\ UNCHANGED <<nStore, nStarted, nSent, nSkipped, nResent, nOverlapped,
                       nSaveFailed, nEverStored>>
        /\ UNCHANGED notNotify

\* the query fails (status, error body, no results): caught, hasMore = false
NotifyFetchFails ==
    \E r \in 1..NInvocations :
        /\ nRun[r].pc = "fetch"
        /\ nRun' = [nRun EXCEPT ![r].pc = "save"]
        /\ UNCHANGED <<nStore, nStarted, nSent, nSkipped, nResent, nOverlapped,
                       nSaveFailed, nEverStored>>
        /\ UNCHANGED notNotify

\* the team is in notifiedTeamIds: continue
TeamAlreadyNotified ==
    \E r \in 1..NInvocations :
        /\ nRun[r].pc = "loop"
        /\ AlreadyNotified(nRun[r].list, nRun[r].idx)
        /\ NextTeam(r, nRun[r].list, nRun[r].new)
        /\ nSkipped' = nSkipped \cup {nRun[r].idx}
        /\ UNCHANGED <<nStore, nStarted, nSent, nResent, nOverlapped, nSaveFailed,
                       nEverStored>>
        /\ UNCHANGED notNotify

\* no name, no Scrum Master, no valid e-mail, no Slack user, or Slack
\* refuses the message: nothing is recorded for the team
TeamNotNotified ==
    \E r \in 1..NInvocations :
        /\ nRun[r].pc = "loop"
        /\ ~AlreadyNotified(nRun[r].list, nRun[r].idx)
        /\ NextTeam(r, ListAfterTeam(nRun[r].list, nRun[r].idx, FALSE), nRun[r].new)
        /\ UNCHANGED <<nStore, nStarted, nSent, nSkipped, nResent, nOverlapped,
                       nSaveFailed, nEverStored>>
        /\ UNCHANGED notNotify

\* Slack accepts the direct message: the id is pushed, newNotifications set
TeamNotified ==
    \E r \in 1..NInvocations :
        /\ nRun[r].pc = "loop"
        /\ ~AlreadyNotified(nRun[r].list, nRun[r].idx)
        /\ NextTeam(r, ListAfterTeam(nRun[r].list, nRun[r].idx, TRUE), TRUE)
        /\ nSent' = [nSent EXCEPT ![nRun[r].idx] = @ + 1]
        /\ nResent' = (nResent \/ nRun[r].idx \in Ids(nStore))
        /\ UNCHANGED <<nStore, nStarted, nSkipped, nOverlapped, nSaveFailed,
                       nEverStored>>
        /\ UNCHANGED notNotify

\* the end of the invocation, newNotifications set: the list is stored
NotifySave ==
    \E r \in 1..NInvocations :
        /\ nRun[r].pc = "save"
        /\ nRun[r].new
        /\ nStore' = SavedList(nStore, nRun[r].list)
        /\ nEverStored' = nEverStored \cup Ids(nStore')
        /\ nRun' = [nRun EXCEPT ![r] = IdleRun]
        /\ UNCHANGED <<nStarted, nSent, nSkipped, nResent, nOverlapped, nSaveFailed>>
        /\ UNCHANGED notNotify

\* the end of the invocation, newNotifications set: setProperty raises,
\* which is caught and logged
NotifySaveFails ==
    \E r \in 1..NInvocations :
        /\ nRun[r].pc = "save"
        /\ nRun[r].new
        /\ nSaveFailed' = TRUE
        /\ nRun' = [nRun EXCEPT ![r] = IdleRun]
        /\ UNCHANGED <<nStore, nStarted, nSent, nSkipped, nResent, nOverlapped,
                       nEverStored>>
        /\ UNCHANGED notNotify

\* the end of the invocation, nothing new: nothing is stored
NotifyFinish ==
    \E r \in 1..NInvocations :
        /\ nRun[r].pc = "save"
        /\ ~nRun[r].new
        /\ nRun' = [nRun EXCEPT ![r] = IdleRun]
        /\ UNCHANGED <<nStore, nStarted, nSent, nSkipped, nResent, nOverlapped,
                       nSaveFailed, nEverStored>>
        /\ UNCHANGED notNotify

NextNotify ==
    \/ NotifyStart
    \/ NotifyFetch
    \/ NotifyFetchFails
    \/ TeamAlreadyNotified
    \/ TeamNotNotified
    \/ TeamNotified
    \/ NotifySave
    \/ NotifySaveFails
    \/ NotifyFinish

SpecNotify == InitNotify /\ [][NextNotify]_vars

\* no invocation is in progress
NoneRunning == \A r \in 1..NInvocations : nRun[r].pc = "idle"

C12_LastWriterWins ==
    [][\A r \in 1..NInvocations :
          (nRun[r].pc = "save" /\ nRun'[r].pc = "idle" /\ nStore' # nStore)
              => nStore' = nRun[r].list]_vars

\* C12 witness: two invocations overlapped, a team has two accepted
\* messages, and an id that was stored is no longer in the stored list
C12_Witness ==
    /\ nOverlapped
    /\ NoneRunning
    /\ \E t \in 1..NTeams : nSent[t] >= 2
    /\ \E u \in nEverStored : u \notin Ids(nStore)

\* C28: the list of an invocation grows only by the team whose message
\* Slack accepted in that very step; a team passed without an accepted
\* message leaves the list as it is, the stored list gains only teams with
\* an accepted message, and an invocation skips a team as already notified
\* only when the team is in the list it read, so a team that was not
\* recorded is taken up again by the next invocation.
C28_RecordedOnlyAfterSuccess ==
    [][/\ \A r \in 1..NInvocations :
             (nRun[r].pc = "loop" /\ nRun'[r].idx # nRun[r].idx) =>
                 IF nSent'[nRun[r].idx] = nSent[nRun[r].idx] + 1
                 THEN nRun'[r].list = Append(nRun[r].list, nRun[r].idx)
                 ELSE nRun'[r].list = nRun[r].list
       /\ \A t \in Ids(nStore') \ Ids(nStore) : nSent[t] >= 1
       /\ \A t \in nSkipped' \ nSkipped :
             \E r \in 1..NInvocations :
                 nRun[r].pc = "loop" /\ nRun[r].idx = t /\ t \in Ids(nRun[r].list)]_vars

\* C28 witness: after two invocations one after the other, team 1 is in the
\* stored list with its one accepted message, team 2 was passed without
\* one and is not recorded
C28_Witness ==
    /\ NoneRunning
    /\ ~nOverlapped
    /\ nStarted = 2
    /\ nSent[1] = 1
    /\ nSent[2] = 0
    /\ nStore = <<1>>
    /\ nEverStored = {1}

(***************************************************************************)
(* The write helpers: updatePageRelationWithMultiple (api.js, logger.js),  *)
(* updateNotionPageProperties (mandate.js), sendDirectMessageToUser        *)
(***************************************************************************)

\* number of writes in a sequence
MaxWrites == 2

\* what Notion answers a PATCH of a page: HTTP status and the body's object
NotionResponses == [status : {200, 400}, object : {"page", "error"}, ok : {TRUE}]

\* what Slack answers chat.postMessage: HTTP status and the body's ok
SlackResponses == [status : {200, 429}, object : {"none"}, ok : BOOLEAN]

\* what each helper gives its caller: TRUE, FALSE, or an exception
\*   relation: muteHttpExceptions, `response.getResponseCode() !== 200`
\*   mandate:  no muteHttpExceptions, so a failure status raises in
\*             UrlFetchApp.fetch; otherwise `result.object !== 'error'`
\*   slack_dm: muteHttpExceptions, `result.ok`
HelperResult_Mut(helper, response) ==
    IF response.status = 200 THEN "true" ELSE "false"
HelperResult(helper, response) ==
    CASE helper = "relation" ->
            IF response.status # 200 THEN "false" ELSE "true"
      [] helper = "mandate" ->
            IF response.status >= 400 THEN "threw"
            ELSE IF response.object # "error" THEN "true" ELSE "false"
      [] helper = "slack_dm" ->
            IF response.ok THEN "true" ELSE "false"

InitWrite ==
    /\ IdleUsergroup
    /\ IdleSheet
    /\ IdleGroup
    /\ IdleProject
    /\ IdleRetry
    /\ IdlePages
    /\ IdleLink
    /\ IdleMandate
    /\ IdleConfig
    /\ IdleNotify
    /\ wLog = <<>>

\* the log after one call of a helper, answered with `response`
HelperCall(helper, response) ==
    Append(wLog, [helper |-> helper, response |-> response,
                  result |-> HelperResult(helper, response)])

UpdatePageRelationWithMultiple ==
    /\ Len(wLog) < MaxWrites
    /\ \E response \in NotionResponses : wLog' = HelperCall("relation", response)
    /\ UNCHANGED notWrite

UpdateNotionPageProperties ==
    /\ Len(wLog) < MaxWrites
    /\ \E response \in NotionResponses : wLog' = HelperCall("mandate", response)
    /\ UNCHANGED notWrite

SendDirectMessageToUser ==
    /\ Len(wLog) < MaxWrites
    /\ \E response \in SlackResponses : wLog' = HelperCall("slack_dm", response)
    /\ UNCHANGED notWrite

NextWrite ==
    \/ UpdatePageRelationWithMultiple
    \/ UpdateNotionPageProperties
    \/ SendDirectMessageToUser

SpecWrite == InitWrite /\ [][NextWrite]_vars

\* the body of the response reports success: Notion's object is not
\* "error", Slack's ok is true
EnvelopeReportsSuccess(response) == response.object # "error" /\ response.ok

\* C18 as stated: every helper reports a write as successful only if the
\* body of the response reports success.
C18_SuccessOnlyByEnvelope ==
    \A k \in DOMAIN wLog :
        wLog[k].result = "true" => EnvelopeReportsSuccess(wLog[k].response)

\* C18 (amended): updateNotionPageProperties and sendDirectMessageToUser
\* report success only if the body of the response reports success;
\* updatePageRelationWithMultiple reports success exactly when the HTTP
\* status is 200, whatever the body holds.
C18_SuccessByEnvelopeOrStatus ==
    \A k \in DOMAIN wLog :
        /\ wLog[k].helper \in {"mandate", "slack_dm"} =>
              (wLog[k].result = "true" => EnvelopeReportsSuccess(wLog[k].response))
        /\ wLog[k].helper = "relation" =>
              (wLog[k].result = "true" <=> wLog[k].response.status = 200)

\* C18 witness: status 200 with a body that reports failure, answered to
\* updateNotionPageProperties (reported as failed) and to
\* updatePageRelationWithMultiple (reported as successful)
C18_Witness ==
    /\ \E k \in DOMAIN wLog :
          /\ wLog[k].helper = "mandate"
          /\ wLog[k].response = [status |-> 200, object |-> "error", ok |-> TRUE]
          /\ wLog[k].result = "false"
    /\ \E k \in DOMAIN wLog :
          /\ wLog[k].helper = "relation"
          /\ wLog[k].response = [status |-> 200, object |-> "error", ok |-> TRUE]
          /\ wLog[k].result = "true"

(***************************************************************************)
(* getPropertyData, fetchPageTitle, parseRowFromPage (notion.js) and       *)
(* extractPropertyValue (team.js)                                          *)
(***************************************************************************)

\* number of columns of the schema, and of projections of the same page
NCols == 2
MaxProjections == 2

\* a property the page does not have (properties[name] is undefined)
Absent == [type |-> "absent", payload |-> "missing"]

\* the property values: the type tag and the typed payload, which is
\* missing (undefined), null, empty (an empty array) or a value; "people"
\* is a type tag neither function has a case for
PropertyValues ==
    {Absent}
    \cup [type : {"title", "relation"}, payload : {"missing", "null", "empty", "value"}]
    \cup [type : {"number", "select"}, payload : {"missing", "null", "value"}]
    \cup [type : {"people"}, payload : {"value"}]

\* what the related page may answer: a title, another title, no title
\* property, or no page object at all
TitleAnswers == {"T", "U", "untitled", "unreachable"}

\* fetchPageTitle(pageId): the first plain_text of the title property,
\* "[No Title]" without one, "[Error Fetching Title]" when reading the
\* answer raises (caught)
FetchPageTitle_Mut(answer) ==
    IF jRows = <<>> THEN answer ELSE "[Error Fetching Title]"
FetchPageTitle(answer) ==
    CASE answer = "unreachable" -> "[Error Fetching Title]"
      [] answer = "untitled" -> "[No Title]"
      [] OTHER -> answer

\* getPropertyData / extractPropertyValue(property, propertyName): the
\* value returned ("undefined" is the JavaScript value undefined), whether
\* a TypeError is raised, and whether the unhandled type is logged
GetPropertyData(variant, property, answer) ==
    LET Returns(v) == [value |-> v, threw |-> FALSE, unhandled |-> FALSE]
        Throws == [value |-> "none", threw |-> TRUE, unhandled |-> FALSE]
        type == property.type
        payload == property.payload
    IN  CASE type = "absent" -> Returns("")
          [] type = "title" ->
                IF payload \in {"missing", "null"} THEN Throws
                ELSE IF payload = "empty" THEN Returns("") ELSE Returns("text")
          [] type = "number" ->
                IF payload = "null" THEN Returns("")
                ELSE IF payload = "missing" THEN Returns("undefined") ELSE Returns("7")
          [] type = "select" ->
                IF payload \in {"missing", "null"} THEN Returns("") ELSE Returns("name")
          [] type = "relation" ->
                IF payload \in {"missing", "null"} THEN Throws
                ELSE IF payload = "empty" THEN Returns("")
                ELSE IF variant = "notion" THEN Returns(FetchPageTitle(answer))
                ELSE Returns("")
          [] OTHER -> [value |-> "", threw |-> FALSE, unhandled |-> TRUE]

\* parseRowFromPage / parseTeamRow: every column projected in turn; an
\* exception in one column leaves the function
ParseRowFromPage(variant, record, answer) ==
    LET cells == [c \in DOMAIN record |-> GetPropertyData(variant, record[c], answer)]
    IN  [cells |-> cells,
         threw |-> \E c \in DOMAIN record : cells[c].threw,
         answer |-> answer]

InitProject ==
    /\ IdleUsergroup
    /\ IdleSheet
    /\ IdleGroup
    /\ IdleRetry
    /\ IdlePages
    /\ IdleLink
    /\ IdleMandate
    /\ IdleConfig
    /\ IdleNotify
    /\ IdleWrite
    /\ jVariant \in {"notion", "team"}
    /\ jRecord \in [1..NCols -> PropertyValues]
    /\ jTitle = "T"
    /\ jRows = <<>>

\* the page is projected
ProjectPage ==
    /\ Len(jRows) < MaxProjections
    /\ jRows' = Append(jRows, ParseRowFromPage(jVariant, jRecord, jTitle))
    /\ UNCHANGED <<jVariant, jRecord, jTitle>>
    /\ UNCHANGED notProject

\* the related page is renamed, loses its title or becomes unreachable; the
\* projected page itself is not modified
RelatedPageChanges ==
    /\ Len(jRows) < MaxProjections
    /\ \E answer \in TitleAnswers \ {jTitle} : jTitle' = answer
    /\ UNCHANGED <<jVariant, jRecord, jRows>>
    /\ UNCHANGED notProject

NextProject ==
    \/ ProjectPage
    \/ RelatedPageChanges

SpecProject == InitProject /\ [][NextProject]_vars

\* the property is absent, or its typed payload is null or missing
NullLike(property) == property.payload \in {"missing", "null"}

\* C19: the projection of a property never raises; it is the empty string
\* for an absent property, a null or missing payload and an unknown type
\* tag; and an unknown type tag is logged.
C19_ProjectionTotal ==
    \A k \in DOMAIN jRows : \A c \in DOMAIN jRecord :
        LET cell == jRows[k].cells[c] IN
        /\ ~cell.threw
        /\ NullLike(jRecord[c]) => cell.value = ""
        /\ jRecord[c].type = "people" => (cell.value = "" /\ cell.unhandled)

NSheetRows == 2
MaxDay == 2
MaxClock == 6
MaxExecutions == 2

\* parseCustomDate(lastUpdate): local midnight of the day
ParseCustomDate(day) == 2 * day

\* readUsers(sheet): the rows left after `if (parsedDate < lastRunTime)
\* continue`, in sheet order (an unset property compares as 0)
ReadUsers(rows, lastRunTime) ==
    SelectSeq([i \in DOMAIN rows |-> i],
              LAMBDA i : ~(ParseCustomDate(rows[i]) < lastRunTime))

\* setProperty('LAST_RUN_TIME', Date.now().toString()), after the loop and
\* outside every try
NewWatermark_Mut(now, failed, old) == IF failed = {} THEN now ELSE old
NewWatermark(now, failed, old) == now

\* LAST_RUN_TIME while the group loop is running: the loop does not touch it
WatermarkInLoop_Mut(now, old) == now
WatermarkInLoop(now, old) == old

InitGroup ==
    /\ IdleUsergroup
    /\ IdleSheet
    /\ IdleRetry
    /\ IdlePages
    /\ IdleLink
    /\ IdleMandate
    /\ IdleConfig
    /\ IdleNotify
    /\ IdleWrite
    /\ IdleProject
    /\ gRows \in [1..NSheetRows -> 1..MaxDay]
    /\ gLastRun = 0
    /\ gClock = 3
    /\ gPc = "idle"
    /\ gLoaded = 0
    /\ gGroups = <<>>
    /\ gIdx = 0
    /\ gFailed = {}
    /\ gRuns = <<>>

\* time passes
ClockTick ==
    /\ gPc \in {"idle", "loop"}
    /\ gClock < MaxClock
    /\ gClock' = gClock + 1
    /\ UNCHANGED <<gRows, gLastRun, gPc, gLoaded, gGroups, gIdx, gFailed, gRuns>>
    /\ UNCHANGED notGroup

\* an execution begins: the script is loaded (lastRunTime is read), the
\* sheet is read into groupsMap
RunScriptStart ==
    /\ gPc = "idle"
    /\ Len(gRuns) < MaxExecutions
    /\ gLoaded' = gLastRun
    /\ gGroups' = ReadUsers(gRows, gLastRun)
    /\ gIdx' = 1
    /\ gFailed' = {}
    /\ gPc' = "loop"
    /\ UNCHANGED <<gRows, gLastRun, gClock, gRuns>>
    /\ UNCHANGED notGroup

\* one group: found or created, its new users added (or none to add)
GroupUpdated ==
    /\ gPc = "loop"
    /\ gIdx <= Len(gGroups)
    /\ gIdx' = gIdx + 1
    /\ gLastRun' = WatermarkInLoop(gClock, gLastRun)
    /\ UNCHANGED <<gRows, gClock, gPc, gLoaded, gGroups, gFailed, gRuns>>
    /\ UNCHANGED notGroup

\* one group: creation fails (continue), the update is refused, or an
\* exception is caught by the try of the loop body
GroupFailed ==
    /\ gPc = "loop"
    /\ gIdx <= Len(gGroups)
    /\ gIdx' = gIdx + 1
    /\ gFailed' = gFailed \cup {gGroups[gIdx]}
    /\ gLastRun' = WatermarkInLoop(gClock, gLastRun)
    /\ UNCHANGED <<gRows, gClock, gPc, gLoaded, gGroups, gRuns>>
    /\ UNCHANGED notGroup

\* the loop is over: LAST_RUN_TIME is set, the execution ends
RunScriptFinish ==
    /\ gPc = "loop"
    /\ gIdx > Len(gGroups)
    /\ gLastRun' = NewWatermark(gClock, gFailed, gLastRun)
    /\ gRuns' = Append(gRuns, [loaded |-> gLoaded,
                               included |-> {gGroups[i] : i \in DOMAIN gGroups},
                               failed |-> gFailed,
                               ended |-> gClock,
                               stored |-> gLastRun'])
    /\ gPc' = "idle"
    /\ UNCHANGED <<gRows, gClock, gLoaded, gGroups, gIdx, gFailed>>
    /\ UNCHANGED notGroup

NextGroup ==
    \/ ClockTick
    \/ RunScriptStart
    \/ GroupUpdated
    \/ GroupFailed
    \/ RunScriptFinish

SpecGroup == InitGroup /\ [][NextGroup]_vars

\* C29: every execution that finished its loop stored the time of its end
\* as LAST_RUN_TIME, whether or not a group failed; and a row whose Last
\* Update precedes the value an execution stored is in no group of a later
\* execution, even if its own group failed in the earlier one.
C29_WatermarkAdvancesRegardless ==
    /\ \A k \in DOMAIN gRuns : gRuns[k].stored = gRuns[k].ended
    /\ \A k \in DOMAIN gRuns : \A j \in DOMAIN gRuns :
          k < j => \A i \in DOMAIN gRows :
                      ParseCustomDate(gRows[i]) < gRuns[k].stored
                          => i \notin gRuns[j].included

\* C29 witness: the group of a row failed in one execution and the next
\* execution, which finished too, left the row out
C29_Witness ==
    /\ Len(gRuns) = 2
    /\ \E i \in DOMAIN gRows :
          /\ i \in gRuns[1].failed
          /\ ParseCustomDate(gRows[i]) < gRuns[1].stored
          /\ i \notin gRuns[2].included

(***************************************************************************)
(* syncDataToSheet (notion.js), syncNotionPeopleDirectoryToGoogleSheet     *)
(* (slack.js): the Mandates sheet is cleared and filled from the database  *)
(***************************************************************************)

\* the largest database, the pages a query returns at most (page_size), the
\* most data rows the sheet holds before the run
MaxDbPages == 3
SyncPageSize == 2
MaxOldRows == 3

\* a sheet row: the header (page 0), or the row of a page; `old` marks
\* content written before the run
Header == [page |-> 0, old |-> FALSE]
OldRow(i) == [page |-> i, old |-> TRUE]
RowOf(id) == [page |-> id, old |-> FALSE]

\* the pages of the database: every property with its payload, or the
\* first one a relation whose payload is missing
WellFormedPage == [c \in 1..NCols |-> [type |-> "title", payload |-> "value"]]
PageWithoutPayload ==
    [c \in 1..NCols |-> IF c = 1 THEN [type |-> "relation", payload |-> "missing"]
                        ELSE [type |-> "title", payload |-> "value"]]

\* sheet.clearContents()
ClearContents(sheet) == <<>>

\* sheet.getRange(2, 1, numRows, numColumns).setValues(rows): rows 2 to
\* numRows + 1 are overwritten, the others are left as they are
SetValuesFromRow2(sheet, rows) ==
    LET last == IF Len(sheet) > Len(rows) + 1 THEN Len(sheet) ELSE Len(rows) + 1
    IN  [i \in 1..last |-> IF i \in 2..(Len(rows) + 1) THEN rows[i - 1] ELSE sheet[i]]

\* the ids of the pages the query with the current cursor returns
Batch ==
    LET last == IF sCursor + SyncPageSize < Len(sDb) THEN sCursor + SyncPageSize
                ELSE Len(sDb)
    IN  [i \in 1..(last - sCursor) |-> sCursor + i]

\* parseRowFromPage(page) raises
ParseThrows(id) == ParseRowFromPage("notion", sDb[id], "T").threw

InitSheet ==
    /\ IdleUsergroup
    /\ IdleRetry
    /\ IdlePages
    /\ IdleLink
    /\ IdleMandate
    /\ IdleConfig
    /\ IdleNotify
    /\ IdleWrite
    /\ IdleProject
    /\ IdleGroup
    /\ \E n \in 0..MaxDbPages : sDb \in [1..n -> {WellFormedPage, PageWithoutPayload}]
    /\ \E k \in 0..MaxOldRows :
          sSheet = [i \in 1..(k + 1) |-> IF i = 1 THEN Header ELSE OldRow(i - 1)]
    /\ sPc = "idle"
    /\ sCursor = 0
    /\ sAllRows = <<>>
    /\ sFetched = <<>>

\* the job starts: the sheet is cleared and the header row appended
SheetSyncStart ==
    /\ sPc = "idle"
    /\ sSheet' = Append(ClearContents(sSheet), Header)
    /\ sPc' = "loop"
    /\ UNCHANGED <<sDb, sCursor, sAllRows, sFetched>>
    /\ UNCHANGED notSheet

\* a query is answered and every page of it is parsed: its rows are added
\* to allRows; the loop goes on while has_more
SyncBatchParsed ==
    /\ sPc = "loop"
    /\ \A i \in DOMAIN Batch : ~ParseThrows(Batch[i])
    /\ sAllRows' = sAllRows \o [i \in DOMAIN Batch |-> RowOf(Batch[i])]
    /\ sFetched' = sFetched \o Batch
    /\ sCursor' = sCursor + Len(Batch)
    /\ sPc' = IF sCursor + Len(Batch) < Len(sDb) THEN "loop" ELSE "write"
    /\ UNCHANGED <<sDb, sSheet>>
    /\ UNCHANGED notSheet

\* a query is answered and parseRowFromPage raises for one of its pages:
\* results.map is left, the catch logs the error and breaks out of the loop
SyncBatchParseThrows ==
    /\ sPc = "loop"
    /\ \E i \in DOMAIN Batch : ParseThrows(Batch[i])
    /\ sFetched' = sFetched \o Batch
    /\ sPc' = "write"
    /\ UNCHANGED <<sDb, sSheet, sCursor, sAllRows>>
    /\ UNCHANGED notSheet

\* the query raises or is answered with an error object: the catch logs
\* the error and breaks out of the loop
SyncQueryThrows ==
    /\ sPc = "loop"
    /\ sPc' = "write"
    /\ UNCHANGED <<sDb, sSheet, sCursor, sAllRows, sFetched>>
    /\ UNCHANGED notSheet

\* after the loop: allRows, when not empty, is written from row 2, and the
\* job reports its end
SyncSetValues ==
    /\ sPc = "write"
    /\ sSheet' = IF Len(sAllRows) > 0 THEN SetValuesFromRow2(sSheet, sAllRows)
                 ELSE sSheet
    /\ sPc' = "done"
    /\ UNCHANGED <<sDb, sCursor, sAllRows, sFetched>>
    /\ UNCHANGED notSheet

NextSheet ==
    \/ SheetSyncStart
    \/ SyncBatchParsed
    \/ SyncBatchParseThrows
    \/ SyncQueryThrows
    \/ SyncSetValues

SpecSheet == InitSheet /\ [][NextSheet]_vars

\* C25: when the run has finished, the sheet is the header row followed by
\* one row for every page the queries of the run returned, in the order
\* they were returned; no row from before the run is left.
C25_SheetIsHeaderPlusFetched ==
    sPc = "done" =>
        sSheet = <<Header>> \o [i \in DOMAIN sFetched |-> RowOf(sFetched[i])]

(***************************************************************************)
(* createUserGroup, checkForExistingGroups, getUserGroupMembers,           *)
(* addUsersToUsergroup (slack.js).  Lists of user ids are taken as sets.   *)
(***************************************************************************)

\* number of Slack users, and of calls in a sequence
NUsers == 2
MaxCalls == 2

Users == 1..NUsers

\* how Slack answers a lookup (usergroups.list, usergroups.users.list):
\* with the data, or with ok false / not at all
Lookups == {"ok", "failed"}

\* getUserGroupMembers(userGroupId, token): result.users, or [] when the
\* answer is not ok or the request raises
GetUserGroupMembers(members, lookup) == IF lookup = "ok" THEN members ELSE {}

\* checkForExistingGroups(name, token): whether an id is returned rather
\* than false (false also when the answer is not ok or the request raises)
CheckForExistingGroups(exists, lookup) == lookup = "ok" /\ exists

\* newUsers = userIds.filter(id => !existingUserIds.includes(id))
NewUsers(userIds, existingUserIds) == userIds \ existingUserIds

\* users: existingUserIds.concat(newUsers).join(',')
UpdatePayload(existingUserIds, newUsers) == existingUserIds \cup newUsers

\* one call: the function, the group and its members before the call, the
\* ids given, the answer to the lookup, whether the write request
\* (usergroups.users.update or usergroups.create) was sent and with which
\* users, and whether the call returned true / ok
Call(fn, given, lookup, sent, payload, ok) ==
    [fn |-> fn, existed |-> uExists, before |-> uMembers, given |-> given,
     lookup |-> lookup, sent |-> sent, payload |-> payload, ok |-> ok]

InitUsergroup ==
    /\ IdleRetry
    /\ IdlePages
    /\ IdleLink
    /\ IdleMandate
    /\ IdleConfig
    /\ IdleNotify
    /\ IdleWrite
    /\ IdleProject
    /\ IdleGroup
    /\ IdleSheet
    /\ uExists \in BOOLEAN
    /\ uMembers \in SUBSET Users
    /\ uExists = FALSE => uMembers = {}
    /\ uCalls = <<>>

\* addUsersToUsergroup: no given id is missing from the list the lookup
\* gave; true is returned, nothing is sent
AddUsersNoUpdate ==
    /\ uExists
    /\ Len(uCalls) < MaxCalls
    /\ \E given \in SUBSET Users : \E lookup \in Lookups :
          /\ NewUsers(given, GetUserGroupMembers(uMembers, lookup)) = {}
          /\ uCalls' = Append(uCalls, Call("add", given, lookup, FALSE, {}, TRUE))
    /\ UNCHANGED <<uExists, uMembers>>
    /\ UNCHANGED notUsergroup

\* addUsersToUsergroup: usergroups.users.update is sent and accepted; the
\* group then has the users of the request as its members
AddUsersUpdated ==
    /\ uExists
    /\ Len(uCalls) < MaxCalls
    /\ \E given \in SUBSET Users : \E lookup \in Lookups :
          LET existing == GetUserGroupMembers(uMembers, lookup)
              payload == UpdatePayload(existing, NewUsers(given, existing))
          IN  /\ NewUsers(given, existing) # {}
              /\ uMembers' = payload
              /\ uCalls' = Append(uCalls, Call("add", given, lookup, TRUE, payload, TRUE))
    /\ UNCHANGED uExists
    /\ UNCHANGED notUsergroup

\* addUsersToUsergroup: usergroups.users.update is sent and answered with
\* ok false, or the request raises: false is returned
AddUsersUpdateFailed ==
    /\ uExists
    /\ Len(uCalls) < MaxCalls
    /\ \E given \in SUBSET Users : \E lookup \in Lookups :
          LET existing == GetUserGroupMembers(uMembers, lookup)
              payload == UpdatePayload(existing, NewUsers(given, existing))
          IN  /\ NewUsers(given, existing) # {}
              /\ uCalls' = Append(uCalls, Call("add", given, lookup, TRUE, payload, FALSE))
    /\ UNCHANGED <<uExists, uMembers>>
    /\ UNCHANGED notUsergroup

\* createUserGroup with an empty or blank name: ok false, nothing is sent
CreateGroupInvalidName ==
    /\ Len(uCalls) < MaxCalls
    /\ uCalls' = Append(uCalls, Call("create_blank", {}, "ok", FALSE, {}, FALSE))
    /\ UNCHANGED <<uExists, uMembers>>
    /\ UNCHANGED notUsergroup

\* createUserGroup: the lookup returns an id; ok with that id, nothing sent
CreateGroupExisting ==
    /\ Len(uCalls) < MaxCalls
    /\ \E lookup \in Lookups :
          /\ CheckForExistingGroups(uExists, lookup)
          /\ uCalls' = Append(uCalls, Call("create", {}, lookup, FALSE, {}, TRUE))
    /\ UNCHANGED <<uExists, uMembers>>
    /\ UNCHANGED notUsergroup

\* createUserGroup: the lookup returns false, usergroups.create is sent and
\* Slack creates the group (no group of the name exists)
CreateGroupCreated ==
    /\ Len(uCalls) < MaxCalls
    /\ ~uExists
    /\ \E lookup \in Lookups :
          /\ ~CheckForExistingGroups(uExists, lookup)
          /\ uCalls' = Append(uCalls, Call("create", {}, lookup, TRUE, {}, TRUE))
    /\ uExists' = TRUE
    /\ UNCHANGED uMembers
    /\ UNCHANGED notUsergroup

\* createUserGroup: the lookup returns false, usergroups.create is sent and
\* Slack answers ok false (the name is taken, or another error) or the
\* request raises
CreateGroupRejected ==
    /\ Len(uCalls) < MaxCalls
    /\ \E lookup \in Lookups :
          /\ ~CheckForExistingGroups(uExists, lookup)
          /\ uCalls' = Append(uCalls, Call("create", {}, lookup, TRUE, {}, FALSE))
    /\ UNCHANGED <<uExists, uMembers>>
    /\ UNCHANGED notUsergroup

\* createUserGroup: checkForExistingSlackGroups raises before its try block
\* (it reads `name`, which is not the name of its parameter); the catch of
\* createUserGroup returns ok false, nothing is sent
CreateGroupLookupThrows ==
    /\ Len(uCalls) < MaxCalls
    /\ uCalls' = Append(uCalls, Call("create", {}, "failed", FALSE, {}, FALSE))
    /\ UNCHANGED <<uExists, uMembers>>
    /\ UNCHANGED notUsergroup

NextUsergroup ==
    \/ AddUsersNoUpdate
    \/ AddUsersUpdated
    \/ AddUsersUpdateFailed
    \/ CreateGroupInvalidName
    \/ CreateGroupExisting
    \/ CreateGroupCreated
    \/ CreateGroupRejected
    \/ CreateGroupLookupThrows

SpecUsergroup == InitUsergroup /\ [][NextUsergroup]_vars

\* C23: addUsersToUsergroup sends usergroups.users.update only when one of
\* the given ids was not a member of the group; when all of them were
\* members it sends nothing and returns true.
C23_UpdateOnlyForNewMembers ==
    \A k \in DOMAIN uCalls :
        uCalls[k].fn = "add" =>
            /\ uCalls[k].sent => uCalls[k].given \ uCalls[k].before # {}
            /\ uCalls[k].given \subseteq uCalls[k].before =>
                  (~uCalls[k].sent /\ uCalls[k].ok)

\* C24: createUserGroup sends no usergroups.create for a name that a group
\* already has; it then returns ok.
C24_NoCreateForExistingName ==
    \A k \in DOMAIN uCalls :
        (uCalls[k].fn = "create" /\ uCalls[k].existed) =>
            (~uCalls[k].sent /\ uCalls[k].ok)

\* C27: the users of every usergroups.users.update request include every
\* member the group had before the call, whatever the lookup answered.
C27_UpdateKeepsEveryMember ==
    \A k \in DOMAIN uCalls :
        (uCalls[k].fn = "add" /\ uCalls[k].sent) =>
            uCalls[k].before \subseteq uCalls[k].payload

(***************************************************************************)
(* fetchWithRetries                                                        *)
(***************************************************************************)

\* bound on the maxRetries argument the callers are modelled to pass
MaxRetriesBound == 3

\* the default value of the maxRetries parameter
DefaultMaxRetries == 3

\* the remote is scripted two answers further than the loop can ever ask
ScriptLen == MaxRetriesBound + 2

\* response bodies: Slack's envelope {ok, error}
OkBody == [ok |-> TRUE, error |-> "none"]
RateLimitedBody == [ok |-> FALSE, error |-> "ratelimited"]
InvalidAuthBody == [ok |-> FALSE, error |-> "invalid_auth"]
Bodies == {OkBody, RateLimitedBody, InvalidAuthBody}

\* error codes the remote marks as worth retrying
RetriableErrors == {"ratelimited"}

\* shouldRetry(data.error): called by fetchWithRetries, defined in no file
shouldRetry(error) == error \in RetriableErrors

\* the response object the n-th UrlFetchApp.fetch of this call returns
FetchResponse(n) == [n |-> n, body |-> rScript[n]]

\* for (let attempt = 0; attempt <= maxRetries; attempt++)
LoopContinues_Mut(attempt, maxRetries) == attempt < maxRetries
LoopContinues(attempt, maxRetries) == attempt <= maxRetries

\* Utilities.sleep(2 ** attempt * 1000), in seconds
BackoffSeconds(attempt) == 2 ^ attempt

\* `return lastFailedResponse;` the identifier is declared and assigned
\* nowhere, so evaluating it raises a ReferenceError
AfterLoopPc == "threw"

InitRetry ==
    /\ IdleUsergroup
    /\ IdleSheet
    /\ IdleGroup
    /\ IdleProject
    /\ IdleWrite
    /\ IdleNotify
    /\ IdleConfig
    /\ IdlePages
    /\ IdleLink
    /\ IdleMandate
    /\ rScript \in [1..ScriptLen -> Bodies]
    /\ rMaxRetries \in 0..MaxRetriesBound
    /\ rPc = "loop"
    /\ rAttempt = 0
    /\ rFetched = <<>>
    /\ rSlept = <<>>
    /\ rResult = NoResponse

\* one iteration whose response has data.ok: `return response`
AttemptOk ==
    /\ rPc = "loop"
    /\ LoopContinues(rAttempt, rMaxRetries)
    /\ LET response == FetchResponse(Len(rFetched) + 1) IN
         /\ response.body.ok
         /\ rFetched' = Append(rFetched, response)
         /\ rResult' = response
         /\ rPc' = "returned"
    /\ UNCHANGED <<rScript, rMaxRetries, rAttempt, rSlept>>
    /\ UNCHANGED notRetry

\* one iteration whose response is a retriable failure: sleep, attempt++;
\* when the loop condition then fails the function runs its last statement
AttemptRetriable ==
    /\ rPc = "loop"
    /\ LoopContinues(rAttempt, rMaxRetries)
    /\ LET response == FetchResponse(Len(rFetched) + 1) IN
         /\ ~response.body.ok
         /\ shouldRetry(response.body.error)
         /\ rFetched' = Append(rFetched, response)
         /\ rSlept' = Append(rSlept, BackoffSeconds(rAttempt))
         /\ rAttempt' = rAttempt + 1
         /\ rPc' = IF LoopContinues(rAttempt + 1, rMaxRetries)
                   THEN "loop" ELSE AfterLoopPc
    /\ UNCHANGED <<rScript, rMaxRetries, rResult>>
    /\ UNCHANGED notRetry

\* one iteration whose response is a non-retriable failure: break, then the
\* function runs its last statement
AttemptNonRetriable ==
    /\ rPc = "loop"
    /\ LoopContinues(rAttempt, rMaxRetries)
    /\ LET response == FetchResponse(Len(rFetched) + 1) IN
         /\ ~response.body.ok
         /\ ~shouldRetry(response.body.error)
         /\ rFetched' = Append(rFetched, response)
         /\ rPc' = AfterLoopPc
    /\ UNCHANGED <<rScript, rMaxRetries, rAttempt, rSlept, rResult>>
    /\ UNCHANGED notRetry

NextRetry ==
    \/ AttemptOk
    \/ AttemptRetriable
    \/ AttemptNonRetriable

SpecRetry == InitRetry /\ [][NextRetry]_vars

\* the call has ended, by return or by exception
RetryEnded == rPc \in {"returned", "threw"}

\* the maximum number of attempts of a call: the initial one plus maxRetries
MaxAttempts(maxRetries) == maxRetries + 1

\* the remote answers n retriable failures and then a success
FailsThenSucceeds(n) ==
    /\ n + 1 <= ScriptLen
    /\ \A i \in 1..n : ~rScript[i].ok /\ shouldRetry(rScript[i].error)
    /\ rScript[n + 1].ok

\* every answer of the remote the call has seen is a retriable failure
OnlyRetriableSeen ==
    \A i \in 1..Len(rFetched) :
        ~rFetched[i].body.ok /\ shouldRetry(rFetched[i].body.error)

\* C1: with the default budget, N retriable failures followed by a success
\* cost exactly N+1 fetches when N+1 is within the maximum number of
\* attempts and exactly the maximum number of attempts otherwise; no call
\* ever fetches more often than the maximum.
C1_ExactAttempts ==
    (rMaxRetries = DefaultMaxRetries) =>
        /\ Len(rFetched) <= MaxAttempts(DefaultMaxRetries)
        /\ RetryEnded =>
             \A n \in 0..(ScriptLen - 1) :
                FailsThenSucceeds(n) =>
                    Len(rFetched) = IF n + 1 <= MaxAttempts(DefaultMaxRetries)
                                    THEN n + 1
                                    ELSE MaxAttempts(DefaultMaxRetries)

\* C1 witness: four retriable failures then a success, call ended
C1_Witness ==
    /\ rMaxRetries = DefaultMaxRetries
    /\ RetryEnded
    /\ FailsThenSucceeds(MaxAttempts(DefaultMaxRetries))
    /\ Len(rFetched) = MaxAttempts(DefaultMaxRetries)

\* C2: when every attempt ends in a retriable failure, the call returns the
\* response of the last attempt and raises no exception.
C2_ReturnsLastResponse ==
    (RetryEnded /\ OnlyRetriableSeen) =>
        /\ rPc = "returned"
        /\ rResult = rFetched[Len(rFetched)]

\* C16: when the first response is a failure that is not worth retrying,
\* the call fetches once, never sleeps and returns that response.
C16_NonRetriableReturnsAtOnce ==
    (/\ RetryEnded
     /\ ~rScript[1].ok
     /\ ~shouldRetry(rScript[1].error))
    => /\ Len(rFetched) = 1
       /\ rSlept = <<>>
       /\ rPc = "returned"
       /\ rResult = rFetched[1]

\* the seconds slept in all
RECURSIVE TotalSeconds(_)
TotalSeconds(sleeps) ==
    IF sleeps = <<>> THEN 0 ELSE Head(sleeps) + TotalSeconds(Tail(sleeps))

\* C17: with the default budget the n-th sleep (from 0) lasts 2^n seconds,
\* a sleep happens only when another attempt follows (so a call that has
\* ended has slept fewer times than it has fetched), and a call sleeps at
\* most 1+2+4 = 7 seconds in all.
C17_SleepsOnlyBeforeAnAttempt ==
    (rMaxRetries = DefaultMaxRetries) =>
        /\ \A i \in DOMAIN rSlept : rSlept[i] = 2 ^ (i - 1)
        /\ RetryEnded => Len(rSlept) < Len(rFetched)
        /\ TotalSeconds(rSlept) <= 7

(***************************************************************************)
(* The two jobs that keep a value in the script properties, side by side   *)
(***************************************************************************)

InitPersisted ==
    /\ IdleUsergroup
    /\ IdleSheet
    /\ IdleRetry
    /\ IdlePages
    /\ IdleLink
    /\ IdleMandate
    /\ IdleConfig
    /\ IdleWrite
    /\ IdleProject
    /\ nStore \in {<<>>, <<1>>}
    /\ nRun = [r \in 1..NInvocations |-> IdleRun]
    /\ nStarted = 0
    /\ nSent = [t \in 1..NTeams |-> 0]
    /\ nSkipped = {}
    /\ nResent = FALSE
    /\ nOverlapped = FALSE
    /\ nSaveFailed = FALSE
    /\ nEverStored = {}
    /\ gRows \in [1..NSheetRows -> 1..MaxDay]
    /\ gLastRun = 0
    /\ gClock = 3
    /\ gPc = "idle"
    /\ gLoaded = 0
    /\ gGroups = <<>>
    /\ gIdx = 0
    /\ gFailed = {}
    /\ gRuns = <<>>

\* the invocations of notifyScrumMasterOfCompletedMandates and the
\* executions of runScript, interleaved; the clock stands still
NextPersisted ==
    \/ NextNotify
    \/ RunScriptStart
    \/ GroupUpdated
    \/ GroupFailed
    \/ RunScriptFinish

SpecPersisted == InitPersisted /\ [][NextPersisted]_vars

\* C21: a persisted value changes only in the step that ends a run, after
\* the last record (the notified list when an invocation leaves "save",
\* LAST_RUN_TIME when the group loop is over), so at most once a run and
\* never inside the record loop; and a run takes its copy of the value only
\* in the step that starts it, before any record: afterwards the copy of
\* the list changes only by the run's own additions and lastRunTime not at
\* all.
C21_ReadFirstWriteLast ==
    [][/\ nStore' # nStore =>
             \E r \in 1..NInvocations : nRun[r].pc = "save" /\ nRun'[r].pc = "idle"
       /\ \A r \in 1..NInvocations :
             (nRun[r].pc # "idle" /\ nRun'[r].pc # "idle") =>
                 \/ nRun'[r].list = nRun[r].list
                 \/ nRun'[r].list = Append(nRun[r].list, nRun[r].idx)
       /\ gLastRun' # gLastRun =>
             (gPc = "loop" /\ gIdx > Len(gGroups) /\ gPc' = "idle")
       /\ gLoaded' # gLoaded => (gPc = "idle" /\ gPc' = "loop")]_vars

\* C21 witness: an invocation has stored the list after notifying a team
\* and an execution has stored LAST_RUN_TIME after a loop over two groups
C21_Witness ==
    /\ nEverStored # {}
    /\ NoneRunning
    /\ Len(gRuns) >= 1
    /\ Cardinality(gRuns[1].included) = 2
    /\ gRuns[1].stored # 0

====
